---- MODULE Spec2Model ----
(***************************************************************************)
(* A model of finch-tiled: the resource load coordinator of the TMX/TSX    *)
(* resource systems (tmx.go, tsx.go) and the region query of the renderer  *)
(* (draw.go, render.go).                                                   *)
(*                                                                         *)
(* The specifications share the module's variables:                        *)
(*   SpecLoad     workers calling Load / Unload on one resource system     *)
(*   SpecMetadata workers calling Load / GenerateMetadata on one key       *)
(*   SpecChunks   region queries on an infinite (chunked) layer            *)
(*   SpecFinite   region queries on a finite layer                         *)
(*   SpecRace     workers running region queries on one layer at once      *)
(*   SpecCodec, SpecCsv, SpecAttrs, SpecDocs, SpecGrid                     *)
(*                the decoding functions applied to bounded inputs         *)
(*   SpecProject  InsertOrUpdateEnumType / ClassType on a project          *)
(* Each specification holds the variables of the others at their initial   *)
(* values.                                                                 *)
(***************************************************************************)
EXTENDS Integers, Sequences, FiniteSets, TLC

VARIABLES
    rs,         \* which resource system the run exercises (the receiver rs)
    loaded,     \* rs.tilemaps / rs.tilesets: key -> stored document, or NoDoc
    loading,    \* rs.loading: the set of keys being loaded
    pc,         \* worker -> position in its current call
    call,       \* worker -> the call it runs or last ran: op, key, file
    res,        \* worker -> what its last call returned
    conc,       \* worker -> workers whose call on the same key overlapped its own
    metadata,   \* worker -> the refs GenerateMetadata wrote into the metadata it was handed
    tmx,        \* the map document the queries run on
    edgeIntersects, \* whether geom.Rect64.Intersects counts rectangles sharing only an edge
    layerTiles, \* layer -> layer.tiles (<<>> is the nil slice)
    partitions, \* layer -> layer.partitions, a function from chunk rectangle to tiles
    partitionsNil, \* layer -> layer.partitions == nil
    region,     \* the region (or image bounds, or viewport) of the last query of draw.go
    out,        \* layer -> what drawMapLayer did in the last query
    blits,      \* the region and the output of the last draw_region_to of render.go
    query,      \* worker -> the drawMapLayer it runs next to the other workers'
    arg,        \* the input a pure function of the package is applied to
    ret,        \* the function last applied to arg, and what it returned
    attrs,      \* a TiledXMLAttrTable and the result of the last UnmarshalXMLAttr on it
    project     \* a TiledProject and the last InsertOrUpdate call on it

loadVars == <<rs, loaded, loading, pc, call, res, conc, metadata>>

queryVars == <<tmx, edgeIntersects, layerTiles, partitions, partitionsNil, region, out, blits,
               query>>

pureVars == <<arg, ret, attrs, project>>

vars == <<loadVars, queryVars, pureVars>>

(***************************************************************************)
(* The resource load coordinator                                           *)
(***************************************************************************)

Workers == {"w1", "w2"}

Keys == {"a", "b"}

\* The resource systems of the repository.  "tmx" is TmxResourceSystem of
\* tmx.go (load_tmx stores the document right after xml.Unmarshal),
\* "tmx_valid" is TmxResourceSystem of the revision that calls TMX.IsValid
\* before storing, "tsx" is TsxResourceSystem (calls TSX.IsValid).
Systems == {"tmx", "tmx_valid", "tsx"}

\* What a key resolves to.  "missing": resources.LoadData fails; "malformed":
\* xml.Unmarshal fails; "invalid": the document unmarshals and IsValid
\* rejects it; "good": a valid document.
Files == {"missing", "malformed", "invalid", "good"}

NoDoc == "none"

NoCall == [op |-> "none", key |-> "none", file |-> "none"]

\* A metadata record GenerateMetadata has not written to.
NoMetadata == [written |-> FALSE, refs |-> <<>>]

\* Load looks the metadata up in the manifest before it loads (tmx.go, tsx.go);
\* the "tmx_valid" revision is handed the metadata by its caller.
ChecksMetadata(s) == s \in {"tmx", "tsx"}

\* load_tsx and the validating load_tmx call IsValid; load_tmx of tmx.go does not.
Validates(s) == s \in {"tmx_valid", "tsx"}

\* Unload: nil in the TMX systems, errors.New("not implemented") in the TSX system.
UnloadResult(s) == IF s = "tsx" THEN "unload_not_implemented" ELSE "unload_nil"

IsLoaded(key) == loaded[key] # NoDoc

InFlight(w) == pc[w] \notin {"idle", "returned"}

\* try_load's test, under rs.mu: the key is neither loaded nor loading.
try_load_no_loading_check(maps, loadingSet, key) == maps[key] = NoDoc

try_load_accepts(maps, loadingSet, key) ==
    /\ maps[key] = NoDoc
    /\ key \notin loadingSet

\* The error of a try_load that does not accept the key: the loaded map is
\* tested first.  Here with the "already loading" error in both cases.
try_load_error_always_loading(maps, key) == "err_already_loading"

try_load_error(maps, key) ==
    IF maps[key] # NoDoc THEN "err_already_loaded" ELSE "err_already_loading"

\* The duplicate-load errors of try_load.
DuplicateErrors == {"err_already_loaded", "err_already_loading"}

\* The deferred function of load_tmx / load_tsx: rs.loading.Remove(key).
deferred_remove_forgotten(loadingSet, key) == loadingSet

deferred_remove(loadingSet, key) == loadingSet \ {key}

\* The decode of the loaded bytes: xml.Unmarshal, then IsValid where the
\* system calls it.  "ok" or the error.
decode_skips_validation(s, file) ==
    IF file = "malformed" THEN "err_xml" ELSE "ok"

decode(s, file) ==
    IF file = "malformed" THEN "err_xml"
    ELSE IF Validates(s) /\ file = "invalid" THEN "err_invalid"
    ELSE "ok"

\* A path is the sequence of its segments, a segment the sequence of its
\* characters.  filepath.Base(p): the last segment, "." for the empty path.
Base(p) == IF p = <<>> THEN <<".">> ELSE p[Len(p)]

\* filepath.Ext(name): the suffix of name from its last dot, "" without a dot.
Ext(name) ==
    IF \E i \in 1..Len(name) : name[i] = "."
    THEN SubSeq(name, CHOOSE i \in 1..Len(name) :
                          name[i] = "." /\ \A j \in (i + 1)..Len(name) : name[j] # ".",
                Len(name))
    ELSE <<>>

\* The resource key of a path: strings.TrimSuffix(b, filepath.Ext(b)) for
\* b = filepath.Base(path).
KeyFromPath(p) == SubSeq(Base(p), 1, Len(Base(p)) - Len(Ext(Base(p))))

\* The sources of the tileset elements of the map documents, in document
\* order: "t1.tsx" and "d/t.2.tsx" in the good one, "t1.tsx" and "" in the
\* invalid one.
GoodMapSources ==
    << << <<"t", "1", ".", "t", "s", "x">> >>,
       << <<"d">>, <<"t", ".", "2", ".", "t", "s", "x">> >> >>

InvalidMapSources == << << <<"t", "1", ".", "t", "s", "x">> >>, <<>> >>

\* The source of the image of the good tileset document: "img/t1.png".
GoodImageSource == << <<"i", "m", "g">>, <<"t", "1", ".", "p", "n", "g">> >>

\* What a document that unmarshals refers to: the sources of tmx.Tilesets in
\* the TMX systems; tsx.Image.Source, when it is not empty, in the TSX system.
DocumentSources(s, file) ==
    IF s = "tsx" THEN (IF file = "good" THEN <<GoodImageSource>> ELSE <<>>)
    ELSE IF file = "good" THEN GoodMapSources
    ELSE InvalidMapSources

\* The refs GenerateMetadata collects: the key of each source, in order.
metadata_refs(sources) == [i \in 1..Len(sources) |-> KeyFromPath(sources[i])]

\* A worker that runs no drawMapLayer: the region, the index of the chunk its
\* loop is at, the rectangle and the tiles of the chunk in hand, and what the
\* call returned.
NoQuery == [region |-> [X |-> 0, Y |-> 0, W |-> 0, H |-> 0], i |-> 0,
            rect |-> [X |-> 0, Y |-> 0, W |-> 0, H |-> 0], tiles |-> <<>>,
            err |-> FALSE, out |-> <<>>]

\* The query variables at rest, for the load specification.
QueryIdle ==
    /\ tmx = [Infinite |-> FALSE, TileWidth |-> 1, TileHeight |-> 1,
              Tilesets |-> <<>>, Layers |-> <<>>]
    /\ edgeIntersects = FALSE
    /\ layerTiles = <<>>
    /\ partitions = <<>>
    /\ partitionsNil = <<>>
    /\ region = [X |-> 0, Y |-> 0, W |-> 0, H |-> 0]
    /\ out = <<>>
    /\ blits = [ran |-> FALSE, region |-> [X |-> 0, Y |-> 0, W |-> 0, H |-> 0],
                abort |-> FALSE, panic |-> FALSE, blits |-> <<>>]
    /\ query = [w \in Workers |-> NoQuery]

\* A nil TiledXMLAttrTable on which UnmarshalXMLAttr has not been called.
NoAttrs == [nil |-> TRUE, table |-> <<>>, name |-> "", value |-> <<>>, err |-> FALSE]

\* &TiledProject{}: no property types, no InsertOrUpdate call made.
NoProject ==
    [EnumPropertyTypes |-> <<>>, ClassPropertyTypes |-> <<>>,
     fn |-> "none", definitions |-> <<>>]

\* No pure function applied, no attribute parsed, an empty project.
PureIdle ==
    /\ arg = [kind |-> "none"]
    /\ ret = [fn |-> "none"]
    /\ attrs = NoAttrs
    /\ project = NoProject

LoadInit ==
    /\ rs \in Systems
    /\ loaded = [k \in Keys |-> NoDoc]
    /\ loading = {}
    /\ pc = [w \in Workers |-> "idle"]
    /\ call = [w \in Workers |-> NoCall]
    /\ res = [w \in Workers |-> "none"]
    /\ conc = [w \in Workers |-> {}]
    /\ metadata = [w \in Workers |-> NoMetadata]
    /\ QueryIdle
    /\ PureIdle

\* Load(ctx, handle): without metadata it returns an error before load_tmx;
\* otherwise the worker enters load_tmx / load_tsx.
Load(w, k, f, hasMeta) ==
    /\ ~InFlight(w)
    /\ call' = [call EXCEPT ![w] = [op |-> "Load", key |-> k, file |-> f]]
    /\ IF ChecksMetadata(rs) /\ ~hasMeta
       THEN /\ pc' = [pc EXCEPT ![w] = "returned"]
            /\ res' = [res EXCEPT ![w] = "err_no_metadata"]
            /\ conc' = [conc EXCEPT ![w] = {}]
       ELSE /\ pc' = [pc EXCEPT ![w] = "try_load"]
            /\ res' = [res EXCEPT ![w] = "none"]
            /\ LET others == {v \in Workers \ {w} : InFlight(v) /\ call[v].key = k}
               IN conc' = [v \in Workers |->
                             IF v = w THEN others
                             ELSE IF v \in others THEN conc[v] \cup {w}
                             ELSE conc[v]]
    /\ metadata' = [metadata EXCEPT ![w] = NoMetadata]
    /\ UNCHANGED <<rs, loaded, loading>>
    /\ UNCHANGED queryVars
    /\ UNCHANGED pureVars

\* GenerateMetadata(ctx, key, metadata): the worker enters load_tmx /
\* load_tsx with the metadata it was handed.
GenerateMetadata(w, k, f) ==
    /\ ~InFlight(w)
    /\ call' = [call EXCEPT ![w] = [op |-> "GenerateMetadata", key |-> k, file |-> f]]
    /\ pc' = [pc EXCEPT ![w] = "try_load"]
    /\ res' = [res EXCEPT ![w] = "none"]
    /\ LET others == {v \in Workers \ {w} : InFlight(v) /\ call[v].key = k}
       IN conc' = [v \in Workers |->
                     IF v = w THEN others
                     ELSE IF v \in others THEN conc[v] \cup {w}
                     ELSE conc[v]]
    /\ metadata' = [metadata EXCEPT ![w] = NoMetadata]
    /\ UNCHANGED <<rs, loaded, loading>>
    /\ UNCHANGED queryVars
    /\ UNCHANGED pureVars

\* try_load with rs.loading.Add(key) moved before the checks.
TryLoad_adds_before_check(w) ==
    /\ pc[w] = "try_load"
    /\ loading' = loading \cup {call[w].key}
    /\ IF try_load_accepts(loaded, loading, call[w].key)
       THEN /\ pc' = [pc EXCEPT ![w] = "load_data"]
            /\ UNCHANGED res
       ELSE /\ pc' = [pc EXCEPT ![w] = "returned"]
            /\ res' = [res EXCEPT ![w] = try_load_error(loaded, call[w].key)]
    /\ UNCHANGED <<rs, loaded, call, conc, metadata>>
    /\ UNCHANGED queryVars
    /\ UNCHANGED pureVars

\* try_load(key), one critical section of rs.mu.  A rejected call returns
\* the error through load_tmx and Load.
TryLoad(w) ==
    /\ pc[w] = "try_load"
    /\ IF try_load_accepts(loaded, loading, call[w].key)
       THEN /\ loading' = loading \cup {call[w].key}
            /\ pc' = [pc EXCEPT ![w] = "load_data"]
            /\ UNCHANGED res
       ELSE /\ pc' = [pc EXCEPT ![w] = "returned"]
            /\ res' = [res EXCEPT ![w] = try_load_error(loaded, call[w].key)]
            /\ UNCHANGED loading
    /\ UNCHANGED <<rs, loaded, call, conc, metadata>>
    /\ UNCHANGED queryVars
    /\ UNCHANGED pureVars

\* resources.LoadData(ctx, key, metadata): the suspension point.
LoadData(w) ==
    /\ pc[w] = "load_data"
    /\ IF call[w].file = "missing"
       THEN /\ pc' = [pc EXCEPT ![w] = "deferred"]
            /\ res' = [res EXCEPT ![w] = "err_io"]
       ELSE /\ pc' = [pc EXCEPT ![w] = "decode"]
            /\ UNCHANGED res
    /\ UNCHANGED <<rs, loaded, loading, call, conc, metadata>>
    /\ UNCHANGED queryVars
    /\ UNCHANGED pureVars

\* xml.Unmarshal and IsValid: local to the worker.
Decode(w) ==
    /\ pc[w] = "decode"
    /\ LET r == decode(rs, call[w].file)
       IN IF r = "ok"
          THEN /\ pc' = [pc EXCEPT ![w] = "store"]
               /\ UNCHANGED res
          ELSE /\ pc' = [pc EXCEPT ![w] = "deferred"]
               /\ res' = [res EXCEPT ![w] = r]
    /\ UNCHANGED <<rs, loaded, loading, call, conc, metadata>>
    /\ UNCHANGED queryVars
    /\ UNCHANGED pureVars

\* rs.tilemaps[key] = &tmx, one critical section of rs.mu.
Store(w) ==
    /\ pc[w] = "store"
    /\ loaded' = [loaded EXCEPT ![call[w].key] = call[w].file]
    /\ pc' = [pc EXCEPT ![w] = "deferred"]
    /\ res' = [res EXCEPT ![w] = "ok"]
    /\ UNCHANGED <<rs, loading, call, conc, metadata>>
    /\ UNCHANGED queryVars
    /\ UNCHANGED pureVars

\* The deferred rs.loading.Remove(key), then the return to the caller: Load
\* returns what the load returned, and so does GenerateMetadata when it is
\* an error; after a load without error GenerateMetadata goes on.
Deferred(w) ==
    /\ pc[w] = "deferred"
    /\ loading' = deferred_remove(loading, call[w].key)
    /\ pc' = [pc EXCEPT ![w] = IF call[w].op = "GenerateMetadata" /\ res[w] = "ok"
                                THEN "record_refs" ELSE "returned"]
    /\ UNCHANGED <<rs, loaded, call, res, conc, metadata>>
    /\ UNCHANGED queryVars
    /\ UNCHANGED pureVars

\* The rest of GenerateMetadata: one reference per tileset of the map (the
\* image of the tileset, in the TSX system), written into the metadata.
RecordRefs(w) ==
    /\ pc[w] = "record_refs"
    /\ metadata' = [metadata EXCEPT ![w] = [written |-> TRUE,
                                             refs |-> metadata_refs(DocumentSources(rs, call[w].file))]]
    /\ pc' = [pc EXCEPT ![w] = "returned"]
    /\ UNCHANGED <<rs, loaded, loading, call, res, conc>>
    /\ UNCHANGED queryVars
    /\ UNCHANGED pureVars

\* Unload(ctx, handle): returns without touching the system's state.
Unload(w, k) ==
    /\ ~InFlight(w)
    /\ call' = [call EXCEPT ![w] = [op |-> "Unload", key |-> k, file |-> "none"]]
    /\ pc' = [pc EXCEPT ![w] = "returned"]
    /\ res' = [res EXCEPT ![w] = UnloadResult(rs)]
    /\ conc' = [conc EXCEPT ![w] = {}]
    /\ metadata' = [metadata EXCEPT ![w] = NoMetadata]
    /\ UNCHANGED <<rs, loaded, loading>>
    /\ UNCHANGED queryVars
    /\ UNCHANGED pureVars

LoadNext ==
    \/ \E w \in Workers, k \in Keys, f \in Files, m \in BOOLEAN : Load(w, k, f, m)
    \/ \E w \in Workers : TryLoad(w)
    \/ \E w \in Workers : LoadData(w)
    \/ \E w \in Workers : Decode(w)
    \/ \E w \in Workers : Store(w)
    \/ \E w \in Workers : Deferred(w)
    \/ \E w \in Workers, k \in Keys : Unload(w, k)

SpecLoad == LoadInit /\ [][LoadNext]_vars

\* Workers that load one key through both entry points of the guarded load:
\* Load, of a handle with metadata in the manifest, and GenerateMetadata.
MetadataKey == "a"

MetadataNext ==
    \/ \E w \in Workers, f \in Files : Load(w, MetadataKey, f, TRUE)
    \/ \E w \in Workers, f \in Files : GenerateMetadata(w, MetadataKey, f)
    \/ \E w \in Workers : TryLoad(w)
    \/ \E w \in Workers : LoadData(w)
    \/ \E w \in Workers : Decode(w)
    \/ \E w \in Workers : Store(w)
    \/ \E w \in Workers : Deferred(w)
    \/ \E w \in Workers : RecordRefs(w)

SpecMetadata == LoadInit /\ [][MetadataNext]_vars

(***************************************************************************)
(* Layer data: tiled.parseCsvData and the tile decode of draw.go           *)
(***************************************************************************)

\* Text is a sequence of one-character strings.  A raw cell value (uint32)
\* is a record [hi, lo] of its upper and lower 16 bits.
Digits == {"0", "1", "2", "3", "4", "5", "6", "7", "8", "9"}

DigitValue(c) ==
    CASE c = "0" -> 0 [] c = "1" -> 1 [] c = "2" -> 2 [] c = "3" -> 3
      [] c = "4" -> 4 [] c = "5" -> 5 [] c = "6" -> 6 [] c = "7" -> 7
      [] c = "8" -> 8 [] c = "9" -> 9

\* unicode.IsSpace, on the characters of the model: blank, newline, tab,
\* carriage return, form feed, and, written by their code points, vertical
\* tab, next line and no-break space.
IsSpace(c) == c \in {" ", "\n", "\t", "\r", "\f", "U+000B", "U+0085", "U+00A0"}

Half == 256 * 256

U32(n) == [hi |-> (n \div Half) % Half, lo |-> n % Half]

\* strings.Split(s, ","): the fields between the commas, empty ones included.
\* The fields of s[lo..hi] are those of its two halves, the last field of the
\* first half continuing in the first field of the second.
RECURSIVE SplitRange(_, _, _)
SplitRange(s, lo, hi) ==
    IF lo > hi THEN << <<>> >>
    ELSE IF lo = hi THEN (IF s[lo] = "," THEN << <<>>, <<>> >> ELSE << <<s[lo]>> >>)
    ELSE LET mid == (lo + hi) \div 2
             l == SplitRange(s, lo, mid)
             r == SplitRange(s, mid + 1, hi)
         IN SubSeq(l, 1, Len(l) - 1) \o << l[Len(l)] \o r[1] >> \o Tail(r)

Split(s) == SplitRange(s, 1, Len(s))

\* strings.TrimSpace
RECURSIVE TrimLeft(_)
TrimLeft(s) ==
    IF s # <<>> /\ IsSpace(Head(s)) THEN TrimLeft(Tail(s)) ELSE s

RECURSIVE TrimRight(_)
TrimRight(s) ==
    IF s # <<>> /\ IsSpace(s[Len(s)]) THEN TrimRight(SubSeq(s, 1, Len(s) - 1)) ELSE s

TrimSpace(s) == TrimRight(TrimLeft(s))

\* The digits of a token accumulated modulo 2^32, as uint32(int) truncates.
RECURSIVE Accumulate(_, _)
Accumulate(ds, acc) ==
    IF ds = <<>> THEN acc
    ELSE LET lo10 == acc.lo * 10 + DigitValue(Head(ds))
             hi10 == acc.hi * 10 + (lo10 \div Half)
         IN Accumulate(Tail(ds), [hi |-> hi10 % Half, lo |-> lo10 % Half])

\* uint32(-n) for the uint32 n: the two's complement.
Negate(u) ==
    IF u.lo = 0 THEN [hi |-> (Half - u.hi) % Half, lo |-> 0]
    ELSE [hi |-> Half - 1 - u.hi, lo |-> Half - u.lo]

\* strconv.Atoi followed by uint32(...): an optional sign and one or more
\* decimal digits; anything else is an error.  (Tokens of the model stay
\* within the range of int.)
Atoi(tok) ==
    LET signed == tok # <<>> /\ Head(tok) \in {"+", "-"}
        ds == IF signed THEN Tail(tok) ELSE tok
    IN IF ds = <<>> \/ \E i \in 1..Len(ds) : ds[i] \notin Digits
       THEN [ok |-> FALSE, val |-> U32(0)]
       ELSE [ok |-> TRUE,
             val |-> IF signed /\ Head(tok) = "-"
                     THEN Negate(Accumulate(ds, U32(0)))
                     ELSE Accumulate(ds, U32(0))]

NonEmpty_any(tok) == TRUE

\* if s == "" { continue }
NonEmpty(tok) == tok # <<>>

\* parseCsvData(dataStr): [ok, data]; empty tokens are skipped and a bad token
\* makes the whole payload an error.
parseCsvData(dataStr) ==
    LET Trimmed(fields) == [i \in 1..Len(fields) |-> TrimSpace(fields[i])]
        Numbers(toks) == [i \in 1..Len(toks) |-> Atoi(toks[i])]
        Result(nums) ==
            IF \E i \in 1..Len(nums) : ~nums[i].ok
            THEN [ok |-> FALSE, data |-> <<>>]
            ELSE [ok |-> TRUE, data |-> [i \in 1..Len(nums) |-> nums[i].val]]
    IN Result(Numbers(SelectSeq(Trimmed(Split(dataStr)), NonEmpty)))

\* The bits of a raw cell value.
TILE_ID_MASK_HI == 8191

Bit(u, hiWeight) == (u.hi \div hiWeight) % 2 = 1

TILE_FLIP_HORIZONTAL(u) == Bit(u, 32768)

TILE_FLIP_VERTICAL(u) == Bit(u, 16384)

TILE_FLIP_DIAGONAL(u) == Bit(u, 8192)

TILE_FLIP_ROTATED_HEX(u) == Bit(u, 4096)

\* data & 0x0FFFFFFF
TileId_without_bit_28(u) == (u.hi % 4096) * Half + u.lo

\* data & TILE_ID_MASK (0x1FFFFFFF), a number below 2^29.
TileId(u) == (u.hi % (TILE_ID_MASK_HI + 1)) * Half + u.lo

\* The flags of decodeTile: a set of TiledFlags.  With the diagonal bit set
\* and a horizontal or vertical flag present, both of those are toggled.
DecodeFlags(u) ==
    LET hv == (IF TILE_FLIP_HORIZONTAL(u) THEN {"FLIP_HORIZONTAL"} ELSE {})
                 \cup (IF TILE_FLIP_VERTICAL(u) THEN {"FLIP_VERTICAL"} ELSE {})
        both == {"FLIP_HORIZONTAL", "FLIP_VERTICAL"}
        d == IF TILE_FLIP_DIAGONAL(u)
             THEN {"FLIP_DIAGONAL"}
                     \cup (IF hv # {} THEN (both \ hv) ELSE {})
             ELSE hv
    IN d \cup (IF TILE_FLIP_ROTATED_HEX(u) THEN {"FLIP_ROTATED_HEX"} ELSE {})

\* The scan run from the first tileset up.
FindTilesetIndex_from_first(tilesets, gid, j) ==
    IF \E i \in 1..j : gid >= tilesets[i].FirstGID
    THEN CHOOSE i \in 1..j :
            /\ gid >= tilesets[i].FirstGID
            /\ \A k \in 1..(i - 1) : gid < tilesets[k].FirstGID
    ELSE 0

\* The scan of decodeTile (and TMX.FindTilesetByTileGID): from the last
\* tileset down, the first whose firstgid is <= gid; 0 when there is none.
RECURSIVE FindTilesetIndex(_, _, _)
FindTilesetIndex(tilesets, gid, j) ==
    IF j < 1 THEN 0
    ELSE IF gid >= tilesets[j].FirstGID THEN j
    ELSE FindTilesetIndex(tilesets, gid, j - 1)

\* decodeTile without y += cellHeight - tsx.TileHeight(): the tile hangs
\* from the top of its cell.
decodeTile_top_aligned(data, tilesets, cellHeight) ==
    LET gid == TileId(data)
        j == FindTilesetIndex(tilesets, gid, Len(tilesets))
    IN IF gid = 0 THEN [kind |-> "empty"]
       ELSE IF j = 0 THEN [kind |-> "err", err |-> "no tileset found for GID"]
       ELSE IF ~tilesets[j].tsx.ok THEN [kind |-> "err", err |-> "asset not found"]
       ELSE LET tsx == tilesets[j].tsx
            IN [kind |-> "tile",
                tile |-> [Flags |-> DecodeFlags(data),
                          GID |-> gid - tilesets[j].FirstGID,
                          TsxSrc |-> tilesets[j].Source,
                          X |-> IF tsx.OffsetNil THEN 0 ELSE tsx.OffsetX,
                          Y |-> IF tsx.OffsetNil THEN 0 ELSE tsx.OffsetY,
                          Width |-> tsx.TileWidth,
                          Height |-> tsx.TileHeight]]

\* decodeTile(data, tilesets, cellHeight): [kind |-> "empty"], an error, or
\* the tile at the cell's origin (decodeTiles adds the cell's position).  A
\* tileset's record tsx is the TSX asset of its source: ok is whether GetTSX
\* finds it, OffsetNil whether it has no <tileoffset> element
\* (tsx.TileOffset == nil), ImageWidth the width attribute of its <image>,
\* and img the image asset of its source: whether it is found and is an
\* *ebiten.Image, and the width Dx of its bounds.
decodeTile(data, tilesets, cellHeight) ==
    LET gid == TileId(data)
        j == FindTilesetIndex(tilesets, gid, Len(tilesets))
    IN IF gid = 0 THEN [kind |-> "empty"]
       ELSE IF j = 0 THEN [kind |-> "err", err |-> "no tileset found for GID"]
       ELSE IF ~tilesets[j].tsx.ok THEN [kind |-> "err", err |-> "asset not found"]
       ELSE LET tsx == tilesets[j].tsx
            IN [kind |-> "tile",
                tile |-> [Flags |-> DecodeFlags(data),
                          GID |-> gid - tilesets[j].FirstGID,
                          TsxSrc |-> tilesets[j].Source,
                          X |-> IF tsx.OffsetNil THEN 0 ELSE tsx.OffsetX,
                          Y |-> (IF tsx.OffsetNil THEN 0 ELSE tsx.OffsetY)
                                + cellHeight - tsx.TileHeight,
                          Width |-> tsx.TileWidth,
                          Height |-> tsx.TileHeight]]

IsTile(t) == t.kind = "tile"

\* decodeTiles(data, tilesets, ...): [ok, tiles]; a nil slice is <<>>.  Cell i
\* lies at column i % cellPerRow and row i / cellPerRow; empty cells add no
\* tile, and an error of parseCsvData or of any decodeTile ends the decode
\* with no tiles at all.
decodeTiles(data, tilesets, startX, startY, layerWidth, layerHeight, cellWidth, cellHeight) ==
    LET cellPerRow == layerWidth \div cellWidth
        Place(t, i) ==
            IF t.kind = "tile"
            THEN [kind |-> "tile",
                  tile |-> [t.tile EXCEPT
                              !.X = @ + startX + (((i - 1) % cellPerRow) * cellWidth),
                              !.Y = @ + startY + (((i - 1) \div cellPerRow) * cellHeight)]]
            ELSE t
        Tiles(made) == [i \in 1..Len(made) |-> made[i].tile]
        Cells(parsed) ==
            [ok |-> parsed.ok,
             cells |-> [i \in 1..Len(parsed.data) |->
                          Place(decodeTile(parsed.data[i], tilesets, cellHeight), i)]]
        Result(c) ==
            IF ~c.ok \/ \E i \in 1..Len(c.cells) : c.cells[i].kind = "err"
            THEN [ok |-> FALSE, tiles |-> <<>>]
            ELSE [ok |-> TRUE, tiles |-> Tiles(SelectSeq(c.cells, IsTile))]
    IN Result(Cells(parseCsvData(data)))

(***************************************************************************)
(* The transforms of the renderers                                         *)
(***************************************************************************)

\* ebiten.GeoM: the affine map x' = a*x + b*y + tx, y' = c*x + d*y + ty.
GeoMIdentity == [a |-> 1, b |-> 0, c |-> 0, d |-> 1, tx |-> 0, ty |-> 0]

\* GeoM.Scale(x, y)
Scale(g, x, y) ==
    [a |-> g.a * x, b |-> g.b * x, tx |-> g.tx * x,
     c |-> g.c * y, d |-> g.d * y, ty |-> g.ty * y]

\* GeoM.Translate(tx, ty)
Translate(g, tx, ty) == [g EXCEPT !.tx = @ + tx, !.ty = @ + ty]

\* GeoM.Rotate(theta) for theta = q * Pi/2, q = 1 or -1: sin theta = q and
\* cos theta is taken as 0.
Rotate(g, q) ==
    [a |-> 0 - q * g.c, b |-> 0 - q * g.d, tx |-> 0 - q * g.ty,
     c |-> q * g.a, d |-> q * g.b, ty |-> q * g.tx]

\* The steps of drawMapLayer's tile loop.
DiagonalSteps(g, tile) ==
    IF "FLIP_DIAGONAL" \in tile.Flags
    THEN Translate(Scale(Rotate(g, 1), -1, 1), tile.Height - tile.Width, 0)
    ELSE g

HorizontalSteps(g, tile) ==
    IF "FLIP_HORIZONTAL" \in tile.Flags
    THEN Translate(Scale(g, -1, 1), tile.Width, 0)
    ELSE g

VerticalSteps(g, tile) ==
    IF "FLIP_VERTICAL" \in tile.Flags
    THEN Translate(Scale(g, 1, -1), 0, tile.Height)
    ELSE g

\* op.GeoM of drawMapLayer for a tile, in DrawModeNormal.
TileGeoM(tile) ==
    Translate(VerticalSteps(HorizontalSteps(DiagonalSteps(GeoMIdentity, tile), tile), tile),
              tile.X, tile.Y)

\* op.GeoM of blit_tile(…, tsx, tile, hFlip, vFlip, dFlip, x, y, dx, dy): the
\* anchor, the horizontal, vertical and diagonal steps, then the position
\* x + tsx.TileOffset.X() + int(dx), y + tsx.TileOffset.Y() + int(dy).
\* TileOffset is read without a nil check: X has a value receiver, so a
\* tileset without <tileoffset> is a nil pointer dereference.  (dx and dy are
\* whole numbers in the model.)
BlitGeoM(tsx, cellHeight, hFlip, vFlip, dFlip, x, y, dx, dy) ==
    LET Anchor(g) == Translate(g, 0, cellHeight - tsx.TileHeight)
        H(g) == IF hFlip THEN Translate(Scale(g, -1, 1), tsx.TileWidth, 0) ELSE g
        V(g) == IF vFlip THEN Translate(Scale(g, 1, -1), 0, tsx.TileHeight) ELSE g
        D(g) == IF dFlip
                THEN Translate(Scale(Rotate(g, -1), 1, -1), tsx.TileHeight, 0)
                ELSE g
    IN IF tsx.OffsetNil
       THEN [kind |-> "panic", what |-> "nil pointer dereference"]
       ELSE [kind |-> "ok",
             GeoM |-> Translate(D(V(H(Anchor(GeoMIdentity)))),
                                x + tsx.OffsetX + dx, y + tsx.OffsetY + dy)]

\* blit_tile: the sub-image of the tile at (tileX, tileY) of the tileset
\* image, tilesPerRow being tsx.Image.Width() / tsx.TileWidth(), drawn under
\* op.GeoM.  A tile width of 0, and an image narrower than a tile, are an
\* integer division by zero.
blit_tile(tsx, cellHeight, tile, hFlip, vFlip, dFlip, x, y, dx, dy) ==
    LET tilesPerRow == tsx.ImageWidth \div tsx.TileWidth
        Drawn(g) ==
            IF g.kind = "panic" THEN g
            ELSE [kind |-> "blit",
                  tileX |-> (tile % tilesPerRow) * tsx.TileWidth,
                  tileY |-> (tile \div tilesPerRow) * tsx.TileHeight,
                  GeoM |-> g.GeoM]
    IN IF tsx.TileWidth = 0 THEN [kind |-> "panic", what |-> "integer divide by zero"]
       ELSE IF tilesPerRow = 0 THEN [kind |-> "panic", what |-> "integer divide by zero"]
       ELSE Drawn(BlitGeoM(tsx, cellHeight, hFlip, vFlip, dFlip, x, y, dx, dy))

(***************************************************************************)
(* Region queries: drawMapLayer of draw.go, draw_region_to of render.go    *)
(***************************************************************************)

\* geom.NewRect64(x, y, w, h), with Min() = (X, Y) and Max() = (X + W, Y + H).
NewRect64(x, y, w, h) == [X |-> x, Y |-> y, W |-> w, H |-> h]

MaxX(r) == r.X + r.W

MaxY(r) == r.Y + r.H

\* The rejection test written out in processChunks, collectTiles and
\* is_tile_in_region: the box lies wholly beyond one side of the region.
outside_region_strict_sides(reg, minx, miny, maxx, maxy) ==
    maxx <= reg.X \/ minx >= MaxX(reg) \/ maxy <= reg.Y \/ miny >= MaxY(reg)

outside_region(reg, minx, miny, maxx, maxy) ==
    maxx < reg.X \/ minx > MaxX(reg) \/ maxy < reg.Y \/ miny > MaxY(reg)

\* region.Intersects(chunkRect) of finch-core's geom package, whose source is
\* not part of this repository: the rectangles overlap, and whether
\* rectangles that only share an edge or a corner count is edgeIntersects.
Intersects(reg, r) ==
    IF edgeIntersects
    THEN reg.X <= MaxX(r) /\ r.X <= MaxX(reg) /\ reg.Y <= MaxY(r) /\ r.Y <= MaxY(reg)
    ELSE reg.X < MaxX(r) /\ r.X < MaxX(reg) /\ reg.Y < MaxY(r) /\ r.Y < MaxY(reg)

\* The pixel rectangle of a chunk: chunkRect of processChunks.
ChunkRect(chunk, cellWidth, cellHeight) ==
    NewRect64(chunk.X * cellWidth, chunk.Y * cellHeight,
              chunk.Width * cellWidth, chunk.Height * cellHeight)

\* _, exists := layer.partitions[chunkRect]
partition_exists_ignored(parts, rect) == FALSE

partition_exists(parts, rect) == rect \in DOMAIN parts

\* The test that lets processChunks decode a chunk.
chunk_selected_always(reg, rect, parts) == ~partition_exists(parts, rect)

chunk_selected(reg, rect, parts) ==
    /\ ~outside_region(reg, rect.X, rect.Y, MaxX(rect), MaxY(rect))
    /\ ~partition_exists(parts, rect)
    /\ Intersects(reg, rect)

\* The loop of processChunks: [err, partitions, decoded], decoded listing the
\* chunks handed to decodeTiles.  The first decode error ends the loop.
RECURSIVE ProcessChunksFrom(_, _, _, _, _, _, _, _)
ProcessChunksFrom(chunks, i, tilesets, reg, cellWidth, cellHeight, parts, decoded) ==
    LET rect == ChunkRect(chunks[i], cellWidth, cellHeight)
        Decoded(d) ==
            IF ~d.ok
            THEN [err |-> TRUE, partitions |-> parts, decoded |-> Append(decoded, i)]
            ELSE ProcessChunksFrom(chunks, i + 1, tilesets, reg, cellWidth, cellHeight,
                                   [r \in DOMAIN parts \cup {rect} |->
                                       IF r = rect THEN d.tiles ELSE parts[r]],
                                   Append(decoded, i))
    IN IF i > Len(chunks) THEN [err |-> FALSE, partitions |-> parts, decoded |-> decoded]
       ELSE IF ~chunk_selected(reg, rect, parts)
       THEN ProcessChunksFrom(chunks, i + 1, tilesets, reg, cellWidth, cellHeight,
                              parts, decoded)
       ELSE Decoded(decodeTiles(chunks[i].Data, tilesets, rect.X, rect.Y,
                                rect.W, rect.H, cellWidth, cellHeight))

\* if layer.partitions == nil { layer.partitions = make(LayerPartitions) }
ensure_partitions_remade(parts, partsNil) == <<>>

ensure_partitions(parts, partsNil) == IF partsNil THEN <<>> ELSE parts

\* processChunks: nothing without chunks; otherwise the store is made and
\* the loop runs.  [err, partitions, nil, decoded]
processChunks(layer, tilesets, reg, cellWidth, cellHeight, parts, partsNil) ==
    LET Result(r) == [err |-> r.err, partitions |-> r.partitions, nil |-> FALSE,
                      decoded |-> r.decoded]
    IN IF Len(layer.Chunks) = 0
       THEN [err |-> FALSE, partitions |-> parts, nil |-> partsNil, decoded |-> <<>>]
       ELSE Result(ProcessChunksFrom(layer.Chunks, 1, tilesets, reg,
                                     cellWidth, cellHeight,
                                     ensure_partitions(parts, partsNil), <<>>))

\* processTiles: the chunk store of an infinite map, or the dense list of a
\* finite layer, decoded when layer.tiles is nil.  A decode of the dense list
\* is listed in decoded as 0.
processTiles(layer, tilesets, reg, cellWidth, cellHeight, isInfinite, tiles, parts, partsNil) ==
    LET Chunked(r) == [err |-> r.err, tiles |-> tiles, partitions |-> r.partitions,
                       nil |-> r.nil, decoded |-> r.decoded]
        Dense(d) == [err |-> ~d.ok, tiles |-> d.tiles, partitions |-> parts,
                     nil |-> partsNil, decoded |-> <<0>>]
    IN IF isInfinite
       THEN Chunked(processChunks(layer, tilesets, reg, cellWidth, cellHeight,
                                  parts, partsNil))
       ELSE IF tiles # <<>>
       THEN [err |-> FALSE, tiles |-> tiles, partitions |-> parts, nil |-> partsNil,
             decoded |-> <<>>]
       ELSE Dense(decodeTiles(layer.Data, tilesets, 0, 0,
                              layer.Width * cellWidth, layer.Height * cellHeight,
                              cellWidth, cellHeight))

\* The tiles of the stored partitions that intersect the region, the
\* partitions taken in the order ord (Go's map iteration order is unspecified).
RECURSIVE PartitionTiles(_, _, _)
PartitionTiles(ord, parts, reg) ==
    IF ord = <<>> THEN <<>>
    ELSE (IF Head(ord) \in DOMAIN parts /\ Intersects(reg, Head(ord))
          THEN parts[Head(ord)] ELSE <<>>) \o PartitionTiles(Tail(ord), parts, reg)

\* The filter of collectTiles.
FilterTiles(tiles, reg) ==
    LET inside(t) == ~outside_region(reg, t.X, t.Y, t.X + t.Width, t.Y + t.Height)
    IN SelectSeq(tiles, inside)

collectTiles(reg, isInfinite, tiles, parts, partsNil, ord) ==
    IF tiles = <<>> /\ partsNil THEN <<>>
    ELSE FilterTiles(IF isInfinite THEN PartitionTiles(ord, parts, reg) ELSE tiles, reg)

\* The TSX asset GetTSX finds under a tile's TsxSrc: that of the tileset the
\* tile was decoded from.
TsxOf(tilesets, src) ==
    tilesets[CHOOSE j \in 1..Len(tilesets) : tilesets[j].Source = src].tsx

\* GetTSXImg(file): the image of the TSX asset, an error when the asset or
\* its image is not found or the image asset is not an *ebiten.Image.
GetTSXImg(tilesets, src) ==
    LET Image(tsx) == IF tsx.ok /\ tsx.img.ok
                      THEN [ok |-> TRUE, Dx |-> tsx.img.Dx]
                      ELSE [ok |-> FALSE, Dx |-> 0]
    IN Image(TsxOf(tilesets, src))

\* The draw modes of drawMapLayer.
DrawModes == {"DrawModeNormal", "DrawModeRegional", "DrawModeScene"}

\* The view matrix of a call that has none.
identity == [tx |-> 0, ty |-> 0]

\* One pass of the tile loop of drawMapLayer: GetTSXImg fails ("err"), the
\* image is narrower than the tile and int(tilesPerRow) is 0 ("panic", an
\* integer division by zero), or the tile is drawn from the sub-image at
\* (tileX, tileY) to (x, y): its position in DrawModeNormal, its position
\* less the region's origin in DrawModeRegional, its position under the view
\* in DrawModeScene.  (Tiles of the model are at least one pixel wide and
\* its views are translations.)
DrawTile(mode, tile, tilesets, reg, view) ==
    LET Drawn(srcImg, tilesPerRow) ==
            IF ~srcImg.ok THEN [kind |-> "err"]
            ELSE IF tilesPerRow = 0 THEN [kind |-> "panic"]
            ELSE [kind |-> "drawn",
                  drawn |-> [tile |-> tile,
                             tileX |-> (tile.GID % tilesPerRow) * tile.Width,
                             tileY |-> (tile.GID \div tilesPerRow) * tile.Height,
                             x |-> IF mode = "DrawModeRegional" THEN tile.X - reg.X
                                   ELSE IF mode = "DrawModeScene" THEN tile.X + view.tx
                                   ELSE tile.X,
                             y |-> IF mode = "DrawModeRegional" THEN tile.Y - reg.Y
                                   ELSE IF mode = "DrawModeScene" THEN tile.Y + view.ty
                                   ELSE tile.Y]]
        Image(srcImg) == Drawn(srcImg, srcImg.Dx \div tile.Width)
    IN IF mode \notin DrawModes THEN [kind |-> "panic"]
       ELSE Image(GetTSXImg(tilesets, tile.TsxSrc))

IsDrawn(d) == d.kind = "drawn"

\* drawTile(destImg, tile, tilesets, ...): nothing for a nil tile (a tile is
\* what decodeTile returned, [kind |-> "empty"] being nil) or without
\* tilesets; otherwise the error of GetTSXImg, the division by zero of an
\* image narrower than the tile, or the sub-image drawn.
drawTile(tile, tilesets) ==
    LET Drawn(t, srcImg, tilesPerRow) ==
            IF ~srcImg.ok THEN [kind |-> "err", from |-> "GetTSXImg"]
            ELSE IF tilesPerRow = 0 THEN [kind |-> "panic"]
            ELSE [kind |-> "drawn", tile |-> t,
                  tileX |-> (t.GID % tilesPerRow) * t.Width,
                  tileY |-> (t.GID \div tilesPerRow) * t.Height]
        Image(t, srcImg) == Drawn(t, srcImg, srcImg.Dx \div t.Width)
    IN IF tile.kind # "tile" \/ Len(tilesets) = 0 THEN [kind |-> "nothing"]
       ELSE Image(tile.tile, GetTSXImg(tilesets, tile.tile.TsxSrc))

\* DrawObject(ctx, img, tmx, obj, transform, view): nothing for a nil object;
\* an object that holds its tile is drawn with it; otherwise the object of
\* its template takes its place (MustGetTX panics when the template is not
\* found), an object with neither template nor GID is left alone, and the
\* tile is decoded from the GID: an error is logged, a tile is kept and
\* drawn.  obj is [nil, tile, Template, GID], the GID as uint32(obj.GID());
\* tx is what GetTX finds under the template, [ok, Object].
DrawObject(obj, tx, tilesets, cellHeight) ==
    LET Decoded(tile) ==
            IF tile.kind = "err" THEN [kind |-> "err", from |-> "decodeTile"]
            ELSE drawTile(tile, tilesets)
        FromGID(o) == Decoded(decodeTile(o.GID, tilesets, cellHeight))
    IN IF obj.nil THEN [kind |-> "nothing"]
       ELSE IF obj.tile.kind = "tile" THEN drawTile(obj.tile, tilesets)
       ELSE IF obj.Template # ""
       THEN (IF tx.ok THEN FromGID(tx.Object) ELSE [kind |-> "panic"])
       ELSE IF obj.GID = U32(0) THEN [kind |-> "nothing"]
       ELSE FromGID(obj)

\* The tile loop of drawMapLayer: [err, panic, drawn], the tiles drawn being
\* those before the first one that ends the loop.
DrawTiles(mode, tiles, tilesets, reg, view) ==
    LET Ends(kinds) == {i \in 1..Len(kinds) : kinds[i].kind # "drawn"}
        Until(kinds, ends, first) ==
            [err |-> ends # {} /\ kinds[first].kind = "err",
             panic |-> ends # {} /\ kinds[first].kind = "panic",
             drawn |-> [i \in 1..(IF ends = {} THEN Len(kinds) ELSE first - 1) |->
                           kinds[i].drawn]]
        First(kinds, ends) ==
            Until(kinds, ends,
                  IF ends = {} THEN 0 ELSE CHOOSE i \in ends : \A j \in ends : i <= j)
        Loop(kinds) == First(kinds, Ends(kinds))
    IN Loop([i \in 1..Len(tiles) |-> DrawTile(mode, tiles[i], tilesets, reg, view)])

\* What a layer's query leaves in out: whether processTiles ran, whether
\* drawMapLayer returned an error and from which call, whether it panicked,
\* the chunks decoded, the tiles collected and the tiles drawn.
NoOut == [ran |-> FALSE, err |-> FALSE, failed |-> "none", panic |-> FALSE,
          decoded |-> <<>>, tiles |-> <<>>, drawn |-> <<>>]

\* drawMapLayer(mode, destImg, layer, tilesets, region, view, ...): an invisible
\* layer and a map without tilesets are left alone; an error of processTiles
\* is returned before any tile is collected; the collected tiles are drawn in
\* turn until GetTSXImg fails.  [tiles, partitions, nil, out]
drawMapLayer(mode, layer, tilesets, reg, view, cellWidth, cellHeight, isInfinite, tiles, parts, partsNil, ord) ==
    LET Looped(p, collected, loop) ==
            [tiles |-> p.tiles,
             partitions |-> p.partitions,
             nil |-> p.nil,
             out |-> [ran |-> TRUE, err |-> loop.err,
                      failed |-> IF loop.err THEN "GetTSXImg" ELSE "none",
                      panic |-> loop.panic, decoded |-> p.decoded,
                      tiles |-> collected, drawn |-> loop.drawn]]
        Collected(p, collected) ==
            Looped(p, collected, DrawTiles(mode, collected, tilesets, reg, view))
        Result(p) ==
            IF p.err
            THEN [tiles |-> tiles, partitions |-> p.partitions, nil |-> p.nil,
                  out |-> [ran |-> TRUE, err |-> TRUE, failed |-> "processTiles",
                           panic |-> FALSE, decoded |-> p.decoded,
                           tiles |-> <<>>, drawn |-> <<>>]]
            ELSE Collected(p, collectTiles(reg, isInfinite, p.tiles,
                                           p.partitions, p.nil, ord))
    IN IF ~layer.Visible \/ Len(tilesets) = 0
       THEN [tiles |-> tiles, partitions |-> parts, nil |-> partsNil, out |-> NoOut]
       ELSE Result(processTiles(layer, tilesets, reg, cellWidth, cellHeight,
                                isInfinite, tiles, parts, partsNil))

LayerIds == 1..Len(tmx.Layers)

\* The orders in which a range over the layer's partitions can visit them.
VisitOrders(S) ==
    {f \in [1..Cardinality(S) -> S] : \A i, j \in 1..Cardinality(S) : f[i] = f[j] => i = j}

LayerRects(l) ==
    {ChunkRect(tmx.Layers[l].Chunks[i], tmx.TileWidth, tmx.TileHeight) :
        i \in 1..Len(tmx.Layers[l].Chunks)}

\* The layers a query reaches: a panic in drawMapLayer ends the query, and
\* the layers after it are not drawn.
Reached(r, l) == \A k \in 1..(l - 1) : ~r[k].out.panic

\* The layers take what drawMapLayer left: r[l] for a layer it ran on, and
\* nothing new for the others.
LayersDrawn(r, ran) ==
    /\ layerTiles' = [l \in LayerIds |-> IF l \in ran THEN r[l].tiles ELSE layerTiles[l]]
    /\ partitions' = [l \in LayerIds |-> IF l \in ran THEN r[l].partitions ELSE partitions[l]]
    /\ partitionsNil' = [l \in LayerIds |-> IF l \in ran THEN r[l].nil ELSE partitionsNil[l]]
    /\ out' = [l \in LayerIds |-> IF l \in ran THEN r[l].out ELSE NoOut]

\* drawMapLayer on every layer, each against the state the query found it in
\* (a layer's call touches that layer only).
LayerResults(mode, reg, view, ord) ==
    [l \in LayerIds |->
        drawMapLayer(mode, tmx.Layers[l], tmx.Tilesets, reg, view,
                     tmx.TileWidth, tmx.TileHeight, tmx.Infinite,
                     layerTiles[l], partitions[l], partitionsNil[l], ord[l])]

\* The loop of Draw, DrawRegion and DrawScene: drawMapLayer on every layer
\* in turn; a layer's error is logged and the next layer is drawn.
DrawLayers(mode, reg, view) ==
    LET Drawn(r) == LayersDrawn(r, {l \in LayerIds : Reached(r, l)})
    IN \E ord \in [LayerIds -> UNION {VisitOrders(LayerRects(l)) : l \in LayerIds}] :
          /\ \A l \in LayerIds : ord[l] \in VisitOrders(LayerRects(l))
          /\ Drawn(LayerResults(mode, reg, view, ord))
          /\ region' = reg
          /\ UNCHANGED <<tmx, edgeIntersects, blits, query>>
          /\ UNCHANGED loadVars
          /\ UNCHANGED pureVars

\* Draw(ctx, img, tmx): the region is the image's bounds moved to the origin,
\* dx by dy pixels.
Draw(dx, dy) == DrawLayers("DrawModeNormal", NewRect64(0, 0, dx, dy), identity)

\* DrawRegion(ctx, img, tmx, region)
DrawRegion(reg) == DrawLayers("DrawModeRegional", reg, identity)

\* DrawScene(ctx, img, tmx, viewport, viewMatrix)
DrawScene(viewport, viewMatrix) == DrawLayers("DrawModeScene", viewport, viewMatrix)

\* tmx.LayerByName(layerName): the first layer of that name, 0 for nil.
LayerByName(layerName) ==
    IF \E l \in LayerIds : tmx.Layers[l].Name = layerName
    THEN CHOOSE l \in LayerIds :
            /\ tmx.Layers[l].Name = layerName
            /\ \A k \in 1..(l - 1) : tmx.Layers[k].Name # layerName
    ELSE 0

\* drawMapLayer on the layer of that name alone; without such a layer a
\* warning is logged and nothing is drawn.
DrawOneLayer(mode, layerName, reg, view) ==
    LET layer == LayerByName(layerName)
        Drawn(ord) ==
            LayersDrawn([l \in {layer} |->
                            drawMapLayer(mode, tmx.Layers[l], tmx.Tilesets, reg, view,
                                         tmx.TileWidth, tmx.TileHeight, tmx.Infinite,
                                         layerTiles[l], partitions[l], partitionsNil[l],
                                         ord)],
                        {layer})
    IN /\ IF layer = 0
          THEN LayersDrawn(<<>>, {})
          ELSE \E ord \in VisitOrders(LayerRects(layer)) : Drawn(ord)
       /\ region' = reg
       /\ UNCHANGED <<tmx, edgeIntersects, blits, query>>
       /\ UNCHANGED loadVars
       /\ UNCHANGED pureVars

\* DrawLayer(ctx, img, tmx, layerName): the region is the image's bounds moved
\* to the origin, dx by dy pixels.
DrawLayer(layerName, dx, dy) ==
    DrawOneLayer("DrawModeNormal", layerName, NewRect64(0, 0, dx, dy), identity)

\* DrawLayerRegion(ctx, img, tmx, layerName, region)
DrawLayerRegion(layerName, reg) ==
    DrawOneLayer("DrawModeRegional", layerName, reg, identity)

\* DrawSceneLayer(ctx, img, tmx, layerName, viewport, viewMatrix)
DrawSceneLayer(layerName, viewport, viewMatrix) ==
    DrawOneLayer("DrawModeScene", layerName, viewport, viewMatrix)

\* DecodeTile(tileIndex) of decoding.go.
DecodeTile(tileIndex) ==
    [GID |-> TileId(tileIndex),
     HorizontalFlip |-> TILE_FLIP_HORIZONTAL(tileIndex),
     VerticalFlip |-> TILE_FLIP_VERTICAL(tileIndex),
     DiagonalFlip |-> TILE_FLIP_DIAGONAL(tileIndex),
     HexagonalRotate |-> TILE_FLIP_ROTATED_HEX(tileIndex)]

\* TMX.FindTilesetByTileGID(gid): the index of the tileset, 0 for (nil, false).
FindTilesetByTileGID(tilesets, gid) == FindTilesetIndex(tilesets, gid, Len(tilesets))

\* is_tile_in_region(tmx, region, x, y, tw, th)
is_tile_in_region(reg, x, y, tw, th) == ~outside_region(reg, x, y, x + tw, y + th)

IsBlit(c) == c.kind = "blit"

\* One cell of draw_region_to: skipped (empty, outside the region, or with no
\* tileset, which is logged), ending the call (its tileset is not loaded, or
\* the tileset's image is not in the image store), or handed to blit_tile,
\* which blits it or panics.  (Layers of the model are at least one cell
\* wide.)
BlitCell(l, tileIndex, i, reg) ==
    LET x == ((i - 1) % tmx.Layers[l].Width) * tmx.TileWidth
        y == ((i - 1) \div tmx.Layers[l].Width) * tmx.TileHeight
        Blitted(t, tile, b) ==
            IF b.kind = "panic" THEN b
            ELSE [kind |-> "blit",
                  blit |-> [layer |-> l, cell |-> i, tile |-> tile,
                            x |-> x, y |-> y,
                            hFlip |-> t.HorizontalFlip,
                            vFlip |-> t.VerticalFlip,
                            dFlip |-> t.DiagonalFlip,
                            tileX |-> b.tileX, tileY |-> b.tileY, GeoM |-> b.GeoM]]
        Blit(t, j) ==
            IF j = 0 THEN [kind |-> "skip"]
            ELSE IF ~tmx.Tilesets[j].tsx.ok THEN [kind |-> "abort"]
            ELSE IF ~tmx.Tilesets[j].tsx.img.ok THEN [kind |-> "abort"]
            ELSE Blitted(t, t.GID - tmx.Tilesets[j].FirstGID,
                         blit_tile(tmx.Tilesets[j].tsx, tmx.TileHeight,
                                   t.GID - tmx.Tilesets[j].FirstGID,
                                   t.HorizontalFlip, t.VerticalFlip, t.DiagonalFlip,
                                   x, y, 0 - reg.X, 0 - reg.Y))
    IN IF tileIndex = U32(0) \/ ~is_tile_in_region(reg, x, y, tmx.TileWidth, tmx.TileHeight)
       THEN [kind |-> "skip"]
       ELSE Blit(DecodeTile(tileIndex),
                 FindTilesetByTileGID(tmx.Tilesets, DecodeTile(tileIndex).GID))

\* The cell loop of draw_region_to for one layer: [abort, panic, blits], the
\* blits being those of the cells before the first one that ends the call.
BlitCells(l, cells, reg, acc) ==
    LET Blits(done) == acc \o [i \in 1..Len(done) |-> done[i].blit]
        Ends(kinds) == {i \in 1..Len(kinds) : kinds[i].kind \in {"abort", "panic"}}
        Until(kinds, ends, first) ==
            [abort |-> ends # {} /\ kinds[first].kind = "abort",
             panic |-> ends # {} /\ kinds[first].kind = "panic",
             blits |-> Blits(SelectSeq(
                          SubSeq(kinds, 1, IF ends = {} THEN Len(kinds) ELSE first - 1),
                          IsBlit))]
        First(kinds, ends) ==
            Until(kinds, ends,
                  IF ends = {} THEN 0 ELSE CHOOSE i \in ends : \A j \in ends : i <= j)
        Loop(kinds) == First(kinds, Ends(kinds))
    IN Loop([i \in 1..Len(cells) |-> BlitCell(l, cells[i], i, reg)])

\* parse_csv_layer_data(data) of decoding.go: the same statements as
\* parseCsvData of draw.go.
parse_csv_layer_data(data) == parseCsvData(data)

\* parse_base64_layer_data(data) of decoding.go: "base64 decoding not
\* implemented", whatever the data.
parse_base64_layer_data(data) == [ok |-> FALSE, data |-> <<>>]

\* DecodeData(data, encoding) of decoding.go: the decoding function of the
\* encoding, parse_csv_layer_data for "csv" and parse_base64_layer_data, which
\* always fails, for "base64"; any other encoding panics.
DecodeData(data, encoding) ==
    LET Decoded(parsed) ==
            [kind |-> IF parsed.ok THEN "ok" ELSE "err",
             data |-> IF parsed.ok THEN parsed.data ELSE <<>>]
    IN IF encoding = "csv" THEN Decoded(parse_csv_layer_data(data))
       ELSE IF encoding = "base64" THEN Decoded(parse_base64_layer_data(data))
       ELSE [kind |-> "panic", data |-> <<>>]

\* The layer loop of draw_region_to: invisible layers are skipped; a layer
\* whose data does not decode ends the whole call, and so does a panic.
RECURSIVE BlitLayers(_, _, _)
BlitLayers(l, reg, acc) ==
    LET Next(r) == IF r.abort \/ r.panic THEN r ELSE BlitLayers(l + 1, reg, r.blits)
        Cells(decoded) ==
            IF decoded.kind = "err" THEN [abort |-> TRUE, panic |-> FALSE, blits |-> acc]
            ELSE IF decoded.kind = "panic"
            THEN [abort |-> FALSE, panic |-> TRUE, blits |-> acc]
            ELSE Next(BlitCells(l, decoded.data, reg, acc))
    IN IF l > Len(tmx.Layers) THEN [abort |-> FALSE, panic |-> FALSE, blits |-> acc]
       ELSE IF ~tmx.Layers[l].Visible THEN BlitLayers(l + 1, reg, acc)
       ELSE Cells(DecodeData(tmx.Layers[l].Data, tmx.Layers[l].Encoding))

draw_region_to(reg) == BlitLayers(1, reg, <<>>)

NoBlits == [ran |-> FALSE, region |-> NewRect64(0, 0, 0, 0), abort |-> FALSE,
            panic |-> FALSE, blits |-> <<>>]

\* DrawRegion(ctx, img, tmxHandle, region) of render.go on the loaded map.
DrawRegionTo(reg) ==
    LET Done(r) == blits' = [ran |-> TRUE, region |-> reg, abort |-> r.abort,
                             panic |-> r.panic, blits |-> r.blits]
    IN /\ Done(draw_region_to(reg))
       /\ UNCHANGED <<tmx, edgeIntersects, layerTiles, partitions, partitionsNil, region, out,
                      query>>
       /\ UNCHANGED loadVars
       /\ UNCHANGED pureVars

(***************************************************************************)
(* The documents and regions of the query specifications                   *)
(***************************************************************************)

\* The most chunks of a layer of the model.
MaxChunks == 2

\* The width and height, in cells, of the finite map of the region-query example.
MapSize == 10

\* A loaded tileset of 2x2 tiles with a <tileoffset> of (0, 0) and an image
\* two tiles wide, which is in the image store.
Tsx2x2 ==
    [ok |-> TRUE, TileWidth |-> 2, TileHeight |-> 2,
     OffsetNil |-> FALSE, OffsetX |-> 0, OffsetY |-> 0,
     ImageWidth |-> 4, img |-> [ok |-> TRUE, Dx |-> 4]]

\* The tileset whose image is not in the image store.
NoImage(tsx) == [tsx EXCEPT !.img = [ok |-> FALSE, Dx |-> 0]]

\* The tileset whose image is one pixel wide, narrower than a tile.
NarrowImage(tsx) == [tsx EXCEPT !.ImageWidth = 1, !.img = [ok |-> TRUE, Dx |-> 1]]

\* The tileset without a <tileoffset> element.
NoTileOffset(tsx) == [tsx EXCEPT !.OffsetNil = TRUE, !.OffsetX = 0, !.OffsetY = 0]

TilesetOf(gid, tsx) == [FirstGID |-> gid, Source |-> "tiles.tsx", tsx |-> tsx]

TilesetFrom(gid) == TilesetOf(gid, Tsx2x2)

TsxVariants == {NoImage(Tsx2x2), NarrowImage(Tsx2x2), NoTileOffset(Tsx2x2)}

ChunkPayloads ==
    { <<"1", ",", "2">>, <<"0", ",", "0">>, <<"1", ",", "x">> }

\* Chunks of 2x1 cells at cell (0,0), with every payload, and at cell (2,0),
\* with tiles or with a bad token.
ChunkCandidates ==
    {[X |-> 0, Y |-> 0, Width |-> 2, Height |-> 1, Data |-> d] : d \in ChunkPayloads}
    \cup {[X |-> 2, Y |-> 0, Width |-> 2, Height |-> 1, Data |-> d] :
             d \in ChunkPayloads \ { <<"0", ",", "0">> }}

SeqsUpTo(S, n) == UNION {[1..k -> S] : k \in 0..n}

InfiniteMap(ts, v, cs) ==
    [Infinite |-> TRUE, TileWidth |-> 2, TileHeight |-> 2, Tilesets |-> ts,
     Layers |-> <<[Name |-> "ground", Visible |-> v, Width |-> 4, Height |-> 1,
                   Encoding |-> "csv", Data |-> <<>>, Chunks |-> cs]>>]

\* Infinite maps of one layer, "ground", of up to MaxChunks chunks of 2x1
\* cells of 2x2 pixels; with the tileset starting at 2, GID 1 has no tileset.
\* A hidden layer, a map without tilesets and a map whose tileset lacks its
\* image, has a narrow image or has no tile offset have at most one chunk.
InfiniteMaps ==
    {InfiniteMap(ts, TRUE, cs) :
        ts \in {<<TilesetFrom(1)>>, <<TilesetFrom(2)>>},
        cs \in SeqsUpTo(ChunkCandidates, MaxChunks)}
    \cup {InfiniteMap(<<>>, TRUE, cs) : cs \in SeqsUpTo(ChunkCandidates, 1)}
    \cup {InfiniteMap(<<TilesetFrom(1)>>, FALSE, cs) : cs \in SeqsUpTo(ChunkCandidates, 1)}
    \cup {InfiniteMap(<<TilesetOf(1, tsx)>>, TRUE, cs) :
              tsx \in TsxVariants, cs \in SeqsUpTo(ChunkCandidates, 1)}

\* Regions over the chunks at pixels [0,4]x[0,2] and [4,8]x[0,2]: inside the
\* first, the first and the edge of the second, across both, inside the
\* second, on the lower edge, and away from both.
ChunkRegions ==
    {NewRect64(0, 0, 1, 2), NewRect64(0, 0, 4, 2), NewRect64(2, 0, 4, 2),
     NewRect64(5, 0, 1, 2), NewRect64(0, 2, 4, 2), NewRect64(9, 3, 1, 2)}

\* n tokens tok separated by commas.
Repeat(tok, n) == [i \in 1..(2 * n - 1) |-> IF i % 2 = 1 THEN tok ELSE ","]

\* The finite map of the example: MapSize x MapSize cells of 2x2 pixels, one
\* layer, every cell holding tile 1 of a tileset of 2x2 tiles.
FullMap ==
    [Infinite |-> FALSE, TileWidth |-> 2, TileHeight |-> 2,
     Tilesets |-> <<TilesetFrom(1)>>,
     Layers |-> <<[Name |-> "ground", Visible |-> TRUE, Width |-> MapSize,
                   Height |-> MapSize, Encoding |-> "csv",
                   Data |-> Repeat("1", MapSize * MapSize),
                   Chunks |-> <<>>]>>]

LayerPayloads ==
    { <<"1", ",", "1", ",", "\n", "1", ",", "1">>,
      <<"3", ",", "1", ",", "\n", "3", ",", "3">>,
      <<"0", ",", "0", ",", "\n", "0", ",", "0">>,
      <<"3", ",", "x", ",", "\n", "3", ",", "3">> }

\* A layer of 2x2 cells.
SmallLayer(name, v, encoding, data) ==
    [Name |-> name, Visible |-> v, Width |-> 2, Height |-> 2,
     Encoding |-> encoding, Data |-> data, Chunks |-> <<>>]

\* A finite map of two layers, "ground" under "sky".
SmallMap(ts, ground, sky) ==
    [Infinite |-> FALSE, TileWidth |-> 2, TileHeight |-> 2, Tilesets |-> ts,
     Layers |-> <<ground, sky>>]

\* Finite maps of two CSV layers of 2x2 cells; with the tileset starting at
\* 3, GID 1 has no tileset.
SmallMaps ==
    {SmallMap(<<TilesetFrom(g)>>, SmallLayer("ground", v, "csv", d1),
              SmallLayer("sky", TRUE, "csv", d2)) :
        g \in {1, 3}, v \in BOOLEAN, d1 \in LayerPayloads, d2 \in LayerPayloads}

\* The encodings of a <data> element: the two the format names, and one
\* outside it.
Encodings == {"csv", "base64", "zlib"}

\* Maps of two layers full of tile 1: one of whose layers is not CSV, and
\* ones whose tileset lacks its image, has a narrow image or has no tile
\* offset.
VariantMaps ==
    LET Full == <<"1", ",", "1", ",", "\n", "1", ",", "1">>
    IN {SmallMap(<<TilesetFrom(1)>>, SmallLayer("ground", TRUE, e1, Full),
                 SmallLayer("sky", TRUE, e2, Full)) :
           e1 \in Encodings, e2 \in Encodings}
       \cup {SmallMap(<<TilesetOf(1, tsx)>>, SmallLayer("ground", TRUE, "csv", Full),
                      SmallLayer("sky", TRUE, "csv", Full)) : tsx \in TsxVariants}

FiniteMaps == {FullMap} \cup SmallMaps \cup VariantMaps

\* Regions over cells of 2x2 pixels: five by five cells from the origin, the
\* first cell, the inside of the first cell, and two away from the origin.
FiniteRegions ==
    {NewRect64(0, 0, 10, 10), NewRect64(0, 0, 2, 2), NewRect64(0, 0, 1, 1),
     NewRect64(5, 5, 1, 1), NewRect64(2, 4, 10, 2)}

NoRegion == NewRect64(0, 0, 0, 0)

\* The load coordinator at rest, for the query specifications.
LoadIdle ==
    /\ rs = "tmx"
    /\ loaded = [k \in Keys |-> NoDoc]
    /\ loading = {}
    /\ pc = [w \in Workers |-> "idle"]
    /\ call = [w \in Workers |-> NoCall]
    /\ res = [w \in Workers |-> "none"]
    /\ conc = [w \in Workers |-> {}]
    /\ metadata = [w \in Workers |-> NoMetadata]

\* A freshly decoded document: no layer has been queried.
QueryInit(maps) ==
    /\ tmx \in maps
    /\ layerTiles = [l \in 1..Len(tmx.Layers) |-> <<>>]
    /\ partitions = [l \in 1..Len(tmx.Layers) |-> <<>>]
    /\ partitionsNil = [l \in 1..Len(tmx.Layers) |-> TRUE]
    /\ region = NoRegion
    /\ out = [l \in 1..Len(tmx.Layers) |-> NoOut]
    /\ blits = NoBlits
    /\ query = [w \in Workers |-> NoQuery]

ChunkInit ==
    /\ LoadIdle
    /\ edgeIntersects \in BOOLEAN
    /\ QueryInit(InfiniteMaps)
    /\ PureIdle

\* The names asked for: the layers of the maps, and one no map has.
LayerNames == {"ground", "sky", "none"}

\* The bounds of the image drawn to.
ImageBounds == NewRect64(0, 0, 4, 2)

\* A view matrix: the translation by (1, 0).
ViewMatrix == [tx |-> 1, ty |-> 0]

ChunkNext ==
    \/ \E reg \in ChunkRegions : DrawRegion(reg)
    \/ \E name \in {"ground", "none"} : DrawLayerRegion(name, ImageBounds)
    \/ DrawSceneLayer("ground", ImageBounds, ViewMatrix)

SpecChunks == ChunkInit /\ [][ChunkNext]_vars

FiniteInit ==
    /\ LoadIdle
    /\ edgeIntersects = FALSE
    /\ QueryInit(FiniteMaps)
    /\ PureIdle

FiniteNext ==
    \/ \E reg \in FiniteRegions : DrawRegion(reg)
    \/ \E reg \in FiniteRegions : DrawRegionTo(reg)
    \/ \E name \in LayerNames : DrawLayerRegion(name, ImageBounds)
    \/ Draw(ImageBounds.W, ImageBounds.H)
    \/ DrawLayer("sky", ImageBounds.W, ImageBounds.H)
    \/ DrawScene(ImageBounds, ViewMatrix)
    \/ DrawSceneLayer("sky", ImageBounds, ViewMatrix)

SpecFinite == FiniteInit /\ [][FiniteNext]_vars

(***************************************************************************)
(* The cell codec and the transforms applied to bounded inputs             *)
(***************************************************************************)

\* A loaded tileset of 2x3 tiles with a <tileoffset> of (1, 0) and an image
\* two tiles wide, which is in the image store.
Tsx2x3 ==
    [ok |-> TRUE, TileWidth |-> 2, TileHeight |-> 3,
     OffsetNil |-> FALSE, OffsetX |-> 1, OffsetY |-> 0,
     ImageWidth |-> 4, img |-> [ok |-> TRUE, Dx |-> 4]]

TallTilesetOf(gid, tsx) == [FirstGID |-> gid, Source |-> "tall.tsx", tsx |-> tsx]

TallTilesetFrom(gid) == TallTilesetOf(gid, Tsx2x3)

\* Tileset lists by first-global-id: ascending ones, an empty one, and one
\* out of order; and lists of one tileset that lacks its image, has a narrow
\* image or has no tile offset.
TilesetLists ==
    {[i \in 1..Len(gids) |-> TallTilesetFrom(gids[i])] :
        gids \in {<<>>, <<1>>, <<50>>, <<1, 50>>, <<50, 120>>, <<1, 50, 120>>, <<50, 1>>}}
    \cup { <<TallTilesetOf(1, tsx)>> :
               tsx \in {NoImage(Tsx2x3), NarrowImage(Tsx2x3), NoTileOffset(Tsx2x3)} }

\* Raw cell values: every combination of the four high bits over a few tile
\* numbers.
RawCells ==
    {[hi |-> h * 4096 + r, lo |-> l] :
        h \in 0..15, r \in {0, 1}, l \in {0, 1, 49, 50, 75, 120, 200}}

CodecInit ==
    /\ LoadIdle
    /\ QueryIdle
    /\ arg \in [kind : {"cell"}, data : RawCells, tilesets : TilesetLists, cellHeight : {4}]
    /\ ret = [fn |-> "none"]
    /\ attrs = NoAttrs
    /\ project = NoProject

\* decodeTile(data, tilesets, cellHeight) of draw.go
ApplyDecodeTile ==
    /\ ret' = [fn |-> "decodeTile", val |-> decodeTile(arg.data, arg.tilesets, arg.cellHeight)]
    /\ UNCHANGED <<arg, attrs, project>>
    /\ UNCHANGED <<loadVars, queryVars>>

\* DecodeTile(tileIndex) of decoding.go
ApplyDecodeTileIndex ==
    /\ ret' = [fn |-> "DecodeTile", val |-> DecodeTile(arg.data)]
    /\ UNCHANGED <<arg, attrs, project>>
    /\ UNCHANGED <<loadVars, queryVars>>

\* The resolution of draw_region_to: DecodeTile, tmx.FindTilesetByTileGID(gid)
\* and tile := gid - tileset.FirstGID().
ApplyFindTileset ==
    LET Found(gid, j) ==
            [exists |-> j # 0, index |-> j,
             tile |-> IF j # 0 THEN gid - arg.tilesets[j].FirstGID ELSE 0]
    IN /\ ret' = [fn |-> "FindTilesetByTileGID",
                  val |-> Found(DecodeTile(arg.data).GID,
                                FindTilesetByTileGID(arg.tilesets, DecodeTile(arg.data).GID))]
       /\ UNCHANGED <<arg, attrs, project>>
       /\ UNCHANGED <<loadVars, queryVars>>

\* The transform drawMapLayer builds for the tile decodeTile made of the cell.
ApplyTileGeoM ==
    LET Built(t) ==
            /\ t.kind = "tile"
            /\ ret' = [fn |-> "drawMapLayer", flags |-> t.tile.Flags, tile |-> t.tile,
                       val |-> TileGeoM(t.tile)]
    IN /\ Built(decodeTile(arg.data, arg.tilesets, arg.cellHeight))
       /\ UNCHANGED <<arg, attrs, project>>
       /\ UNCHANGED <<loadVars, queryVars>>

\* Where blit_tile is asked to draw: the cell's corner (x, y) and the
\* offset (dx, dy), the region's origin negated.
BlitPositions ==
    {[x |-> 0, y |-> 0, dx |-> 0, dy |-> 0], [x |-> 2, y |-> 4, dx |-> 0 - 1, dy |-> 0 - 3]}

\* The transform blit_tile builds for the cell, as draw_region_to calls it
\* for a cell and a region.
ApplyBlitGeoM ==
    LET Built(t, j, p) ==
            /\ t.GID # 0
            /\ j # 0
            /\ ret' = [fn |-> "blit_tile",
                       flags |-> (IF t.HorizontalFlip THEN {"FLIP_HORIZONTAL"} ELSE {})
                                 \cup (IF t.VerticalFlip THEN {"FLIP_VERTICAL"} ELSE {})
                                 \cup (IF t.DiagonalFlip THEN {"FLIP_DIAGONAL"} ELSE {}),
                       tsx |-> arg.tilesets[j].tsx,
                       at |-> p,
                       val |-> BlitGeoM(arg.tilesets[j].tsx, arg.cellHeight,
                                        t.HorizontalFlip, t.VerticalFlip, t.DiagonalFlip,
                                        p.x, p.y, p.dx, p.dy)]
    IN /\ \E p \in BlitPositions :
             Built(DecodeTile(arg.data),
                   FindTilesetByTileGID(arg.tilesets, DecodeTile(arg.data).GID), p)
       /\ UNCHANGED <<arg, attrs, project>>
       /\ UNCHANGED <<loadVars, queryVars>>

\* The objects drawn: none, one with the cell as its GID, one that holds the
\* tile of the cell, and one with a template.
Objects(data, tilesets, cellHeight) ==
    {[nil |-> TRUE, tile |-> [kind |-> "empty"], Template |-> "", GID |-> U32(0)],
     [nil |-> FALSE, tile |-> [kind |-> "empty"], Template |-> "", GID |-> data],
     [nil |-> FALSE, tile |-> decodeTile(data, tilesets, cellHeight), Template |-> "",
      GID |-> data],
     [nil |-> FALSE, tile |-> [kind |-> "empty"], Template |-> "t.tx", GID |-> U32(0)]}

\* The templates: not found, and one whose object has the cell as its GID.
Templates(data) ==
    {[ok |-> FALSE],
     [ok |-> TRUE,
      Object |-> [nil |-> FALSE, tile |-> [kind |-> "empty"], Template |-> "", GID |-> data]]}

\* DrawObject(ctx, img, tmx, obj, transform, view) of draw.go
ApplyDrawObject ==
    /\ \E obj \in Objects(arg.data, arg.tilesets, arg.cellHeight), tx \in Templates(arg.data) :
          ret' = [fn |-> "DrawObject", obj |-> obj, tx |-> tx,
                  val |-> DrawObject(obj, tx, arg.tilesets, arg.cellHeight)]
    /\ UNCHANGED <<arg, attrs, project>>
    /\ UNCHANGED <<loadVars, queryVars>>

CodecNext ==
    \/ ApplyDecodeTile
    \/ ApplyDecodeTileIndex
    \/ ApplyFindTileset
    \/ ApplyTileGeoM
    \/ ApplyBlitGeoM
    \/ ApplyDrawObject

SpecCodec == CodecInit /\ [][CodecNext]_vars

(***************************************************************************)
(* CSV layer payloads                                                      *)
(***************************************************************************)

\* The most fields of a payload of the model.
MaxFields == 3

\* The fields payloads are made of: numbers, a number after a space, empty
\* and blank fields, a word, and a negative number.
CsvFields ==
    { <<"1">>, <<"2">>, <<" ", "3">>, <<"1", "0">>, <<>>, <<" ">>, <<"a">>, <<"-", "2">> }

RECURSIVE Join(_)
Join(fields) ==
    IF Len(fields) = 0 THEN <<>>
    ELSE IF Len(fields) = 1 THEN fields[1]
    ELSE fields[1] \o <<",">> \o Join(Tail(fields))

\* "1,2,, 3,"
DoubledAndTrailingCommas == << <<"1">>, <<"2">>, <<>>, <<" ", "3">>, <<>> >>

CsvFieldLists ==
    UNION {[1..k -> CsvFields] : k \in 1..MaxFields} \cup {DoubledAndTrailingCommas}

CsvInit ==
    /\ LoadIdle
    /\ QueryIdle
    /\ \E fields \in CsvFieldLists :
          arg = [kind |-> "csv", fields |-> fields, data |-> Join(fields)]
    /\ ret = [fn |-> "none"]
    /\ attrs = NoAttrs
    /\ project = NoProject

\* parseCsvData(dataStr) of draw.go
ApplyParseCsvData ==
    /\ ret' = [fn |-> "parseCsvData", val |-> parseCsvData(arg.data)]
    /\ UNCHANGED <<arg, attrs, project>>
    /\ UNCHANGED <<loadVars, queryVars>>

\* parse_csv_layer_data(data) of decoding.go
ApplyParseCsvLayerData ==
    /\ ret' = [fn |-> "parse_csv_layer_data", val |-> parse_csv_layer_data(arg.data)]
    /\ UNCHANGED <<arg, attrs, project>>
    /\ UNCHANGED <<loadVars, queryVars>>

CsvNext ==
    \/ ApplyParseCsvData
    \/ ApplyParseCsvLayerData

SpecCsv == CsvInit /\ [][CsvNext]_vars

(***************************************************************************)
(* XML attributes: TiledXMLAttrTable.UnmarshalXMLAttr                      *)
(***************************************************************************)

\* UnmarshalAttrString(s)
UnmarshalAttrString(s) == [ok |-> TRUE, val |-> [type |-> "AttrString", v |-> s]]

\* UnmarshalAttrBool(s)
UnmarshalAttrBool(s) ==
    IF s = <<"1">> \/ s = <<"t", "r", "u", "e">>
    THEN [ok |-> TRUE, val |-> [type |-> "AttrBool", v |-> TRUE]]
    ELSE IF s = <<"0">> \/ s = <<"f", "a", "l", "s", "e">>
    THEN [ok |-> TRUE, val |-> [type |-> "AttrBool", v |-> FALSE]]
    ELSE [ok |-> FALSE, val |-> [type |-> "AttrBool", v |-> FALSE]]

\* The runes of fmt's isSpace other than the newline, among the characters
\* of the model: blank, tab, carriage return, form feed, and, written by
\* their code points, vertical tab, next line and no-break space.  (isSpace
\* also holds of U+1680, U+2000..U+200A, U+2028, U+2029, U+202F, U+205F and
\* U+3000, which no value of the model contains.)
ScanSpaces == {" ", "\t", "\r", "\f", "U+000B", "U+0085", "U+00A0"}

\* (*ss).SkipSpace of fmt under Sscanf: every leading space rune is skipped;
\* a newline is not ("unexpected newline"), so it stays at the head and the
\* verb fails on it.
RECURSIVE SkipSpace(_)
SkipSpace(s) ==
    IF s # <<>> /\ Head(s) \in ScanSpaces THEN SkipSpace(Tail(s)) ELSE s

\* The length of the longest prefix of s made of decimal digits.
DigitPrefix(s) ==
    CHOOSE k \in 0..Len(s) :
        /\ \A i \in 1..k : s[i] \in Digits
        /\ k < Len(s) => s[k + 1] \notin Digits

RECURSIVE Decimal(_, _)
Decimal(ds, acc) ==
    IF ds = <<>> THEN acc ELSE Decimal(Tail(ds), acc * 10 + DigitValue(Head(ds)))

\* fmt.Sscanf(s, "%d", &v): leading spaces are skipped, an optional sign and
\* the digits that follow are read, and the rest of s is left unread; without
\* a digit there it is an error.  (Numbers of the model stay within int.)
Sscanf_d(s) ==
    LET Number(t, neg) ==
            IF DigitPrefix(t) = 0 THEN [ok |-> FALSE, v |-> 0]
            ELSE [ok |-> TRUE,
                  v |-> IF neg THEN 0 - Decimal(SubSeq(t, 1, DigitPrefix(t)), 0)
                        ELSE Decimal(SubSeq(t, 1, DigitPrefix(t)), 0)]
        Signed(t) ==
            IF t # <<>> /\ Head(t) \in {"+", "-"}
            THEN Number(Tail(t), Head(t) = "-")
            ELSE Number(t, FALSE)
    IN Signed(SkipSpace(s))

\* UnmarshalAttrInt(s)
UnmarshalAttrInt(s) ==
    LET Result(r) == [ok |-> r.ok, val |-> [type |-> "AttrInt", v |-> r.v]]
    IN Result(Sscanf_d(s))

StringAttrs ==
    {"renderorder", "orientation", "version", "tiledversion", "name", "source", "encoding"}

BoolAttrs == {"infinite", "visible", "locked"}

IntAttrs ==
    {"width", "height", "tilewidth", "tileheight", "spacing", "tilecount", "columns",
     "firstgid", "id", "x", "y", "nextlayerid", "nextobjectid"}

\* unmarshal, ok := attr_unmarshallers[attr.Name.Local], with every name
\* taken for a string attribute.
attr_unmarshaller_defaulting_to_string(name) ==
    IF name \in BoolAttrs THEN "AttrBool"
    ELSE IF name \in IntAttrs THEN "AttrInt"
    ELSE "AttrString"

\* unmarshal, ok := attr_unmarshallers[attr.Name.Local]: the kind of the
\* name's unmarshaller, "none" when the name is not in the map.
attr_unmarshaller(name) ==
    IF name \in StringAttrs THEN "AttrString"
    ELSE IF name \in BoolAttrs THEN "AttrBool"
    ELSE IF name \in IntAttrs THEN "AttrInt"
    ELSE "none"

\* unmarshal(attr.Value)
unmarshal(kind, value) ==
    IF kind = "AttrString" THEN UnmarshalAttrString(value)
    ELSE IF kind = "AttrBool" THEN UnmarshalAttrBool(value)
    ELSE UnmarshalAttrInt(value)

\* The attribute names and values of the model: three names of the map, one
\* of each kind, and two outside it.
AttrNames == {"width", "visible", "name", "opacity", "class"}

AttrValues ==
    { <<"1", "2">>, <<"1", "2", "a", "b", "c">>, <<"a", "b", "c">>, <<" ", "7">>,
      <<"-", "5">>, <<>>, <<"t", "r", "u", "e">>, <<"0">>,
      <<"\r", "5">>, <<"U+00A0", "\f", "U+000B", "4">>, <<"\n", "5">>, <<"\r", "\n", "5">> }

\* (m *TiledXMLAttrTable) UnmarshalXMLAttr(attr): an unknown name returns nil
\* at once; otherwise the map is made when nil, and the parsed value is
\* stored unless the parse is an error.
UnmarshalXMLAttr(name, value) ==
    LET Stored(parsed) ==
            attrs' = [nil |-> FALSE,
                      table |-> IF parsed.ok
                                THEN [n \in DOMAIN attrs.table \cup {name} |->
                                         IF n = name THEN parsed.val ELSE attrs.table[n]]
                                ELSE attrs.table,
                      name |-> name, value |-> value, err |-> ~parsed.ok]
    IN /\ IF attr_unmarshaller(name) = "none"
          THEN attrs' = [attrs EXCEPT !.name = name, !.value = value, !.err = FALSE]
          ELSE Stored(unmarshal(attr_unmarshaller(name), value))
       /\ UNCHANGED <<arg, ret, project>>
       /\ UNCHANGED <<loadVars, queryVars>>

AttrsInit ==
    /\ LoadIdle
    /\ QueryIdle
    /\ PureIdle

AttrsNext == \E name \in AttrNames, value \in AttrValues : UnmarshalXMLAttr(name, value)

SpecAttrs == AttrsInit /\ [][AttrsNext]_vars

(***************************************************************************)
(* Properties of the load coordinator                                      *)
(***************************************************************************)

\* The worker is between a successful try_load and the return of its load.
InSection(w) == pc[w] \in {"load_data", "decode", "store", "deferred"}

LoadErrors == {"err_io", "err_xml", "err_invalid"}

\* The worker's last call passed try_load.
Passed(w) == res[w] \in LoadErrors \cup {"ok"}

\* Two load calls for the same key that overlapped in time and have both returned.
ConcurrentPair(w, v) ==
    /\ w # v
    /\ v \in conc[w]
    /\ w \in conc[v]
    /\ pc[w] = "returned"
    /\ pc[v] = "returned"

\* C1 as stated: of two concurrent loads of one key exactly one passes the
\* duplicate check, in every interleaving.
C1_ExactlyOnePasses ==
    \A w, v \in Workers : ConcurrentPair(w, v) => (Passed(w) # Passed(v))

\* C1, amended: two concurrent loads of one key are never both between the
\* duplicate check and their return; both pass the check only when one of
\* them failed (and so returned the key to Unloaded before the other's
\* check); both are rejected only when the key was already Loaded.
C1_AtMostOnePassesUnlessFailed ==
    /\ \A w, v \in Workers :
          (w # v /\ InSection(w) /\ InSection(v)) => call[w].key # call[v].key
    /\ \A w, v \in Workers :
          (ConcurrentPair(w, v) /\ Passed(w) /\ Passed(v))
             => (res[w] \in LoadErrors \/ res[v] \in LoadErrors)
    /\ \A w, v \in Workers :
          (ConcurrentPair(w, v) /\ ~Passed(w) /\ ~Passed(v))
             => loaded[call[w].key] # NoDoc

C1_Witness ==
    \E w, v \in Workers :
       /\ ConcurrentPair(w, v)
       /\ res[w] = "ok"
       /\ res[v] \in DuplicateErrors

\* C2: try_load returns the duplicate-load error, which Load hands to its
\* caller, exactly when the key is in the loading set or has a document in
\* the loaded map, and then changes neither; otherwise it adds the key to
\* the loading set and the load goes on.
C2_TryLoadRejectsDuplicates ==
    [][\A w \in Workers :
          (pc[w] = "try_load" /\ pc'[w] # "try_load") =>
             IF call[w].key \in loading \/ loaded[call[w].key] # NoDoc
             THEN /\ pc'[w] = "returned"
                  /\ res'[w] \in DuplicateErrors
                  /\ loading' = loading
                  /\ loaded' = loaded
             ELSE /\ pc'[w] = "load_data"
                  /\ res'[w] = "none"
                  /\ loading' = loading \cup {call[w].key}
                  /\ loaded' = loaded]_vars

C2_Witness ==
    \E w, v \in Workers :
       /\ pc[w] = "returned"
       /\ res[w] \in DuplicateErrors
       /\ call[w].op = "Load"
       /\ InSection(v)
       /\ call[v].key = call[w].key
       /\ call[w].key \in loading

\* C3: a load that passed try_load and fails returns its error with the key
\* out of the loading set and without a document, so that try_load accepts
\* the key again; and a key is in the loading set only while some load call
\* of it has not returned.
C3_FailedLoadReturnsToUnloaded ==
    /\ [](\A k \in loading : \E w \in Workers : InSection(w) /\ call[w].key = k)
    /\ [][\A w \in Workers :
            (pc[w] = "deferred" /\ pc'[w] = "returned" /\ res[w] # "ok") =>
               /\ res'[w] \in LoadErrors
               /\ call[w].key \notin loading'
               /\ loaded'[call[w].key] = NoDoc]_vars

C3_Witness ==
    \E w \in Workers :
       /\ pc[w] = "returned"
       /\ res[w] \in LoadErrors
       /\ call[w].key \notin loading
       /\ loaded[call[w].key] = NoDoc

\* The load of this file fails in its decode: the bytes cannot be loaded, the
\* markup is malformed, or the system validates and the document is invalid.
FailingLoad(w) ==
    /\ call[w].op = "Load"
    /\ \/ call[w].file \in {"missing", "malformed"}
       \/ call[w].file = "invalid" /\ rs \in {"tmx_valid", "tsx"}

\* C4: no step of a load whose decode fails changes the loaded map, and when
\* it returns (with its error) the key has no document: IsLoaded(key) is false.
C4_FailedDecodeStoresNothing ==
    [][\A w \in Workers :
          (FailingLoad(w) /\ InFlight(w) /\ pc'[w] # pc[w]) =>
             /\ loaded' = loaded
             /\ pc'[w] = "returned" =>
                   /\ res'[w] \in LoadErrors \cup DuplicateErrors
                   /\ res'[w] \in LoadErrors => ~IsLoaded(call[w].key)']_vars

C4_Witness ==
    \E w \in Workers :
       /\ pc[w] = "returned"
       /\ res[w] = "err_invalid"
       /\ ~IsLoaded(call[w].key)

\* C5 as stated: Unload of a Loaded key discards the document, so that
\* IsLoaded(key) is false when Unload returns and try_load accepts the key.
C5_UnloadDiscardsDocument ==
    [][\A w \in Workers :
          (call'[w].op = "Unload" /\ call'[w] # call[w]
              /\ loaded[call'[w].key] # NoDoc) =>
             /\ loaded'[call'[w].key] = NoDoc
             /\ call'[w].key \notin loading']_vars

(***************************************************************************)
(* Properties of the region queries                                        *)
(***************************************************************************)

\* The chunks the last query of layer l handed to decodeTiles.
DecodedChunks(l) == {out[l].decoded[k] : k \in 1..Len(out[l].decoded)}

RectOf(l, i) == ChunkRect(tmx.Layers[l].Chunks[i], tmx.TileWidth, tmx.TileHeight)

\* The rectangles share more than an edge.
Overlaps(reg, r) ==
    reg.X < MaxX(r) /\ r.X < MaxX(reg) /\ reg.Y < MaxY(r) /\ r.Y < MaxY(reg)

\* C6: when the chunk decode step runs a second time with the same region, a
\* chunk rectangle that the first run decoded and stored keeps its one entry
\* with the tile list of the first run, and the second run hands no chunk of
\* that rectangle to the decoder.
C6_SecondDecodeKeepsEntry ==
    [][\A l \in LayerIds :
          (region' = region /\ out[l].ran /\ out'[l].ran) =>
             \A i \in DecodedChunks(l) :
                RectOf(l, i) \in DOMAIN partitions[l] =>
                   /\ RectOf(l, i) \in DOMAIN partitions'[l]
                   /\ partitions'[l][RectOf(l, i)] = partitions[l][RectOf(l, i)]
                   /\ \A k \in 1..Len(out'[l].decoded) :
                         RectOf(l, out'[l].decoded[k]) # RectOf(l, i)]_vars

\* A query whose region lies over a stored chunk with tiles, and which
\* decoded nothing.
C6_Witness ==
    /\ tmx.Infinite
    /\ out[1].ran /\ ~out[1].err /\ out[1].decoded = <<>>
    /\ \E rect \in DOMAIN partitions[1] :
          Overlaps(region, rect) /\ partitions[1][rect] # <<>>

C7_OnlyIntersectingDecoded ==
    \A l \in LayerIds :
       (tmx.Infinite /\ out[l].ran) =>
          /\ \A i \in DecodedChunks(l) : Intersects(region, RectOf(l, i))
          /\ ~out[l].err =>
                \A i \in 1..Len(tmx.Layers[l].Chunks) :
                   Intersects(region, RectOf(l, i)) => RectOf(l, i) \in DOMAIN partitions[l]

C7_OnlyIntersectingInserted ==
    \A l \in LayerIds :
       \A rect \in (DOMAIN partitions'[l]) \ (DOMAIN partitions[l]) :
          Intersects(region', rect)

\* C7: a query of an infinite layer hands to the decoder, and inserts into
\* the store, only chunks whose rectangle intersects the region; and after a
\* query without error every chunk intersecting the region has an entry.
C7_DecodesExactlyIntersecting ==
    []C7_OnlyIntersectingDecoded /\ [][C7_OnlyIntersectingInserted]_vars

\* A query without error that decoded a chunk and left another chunk, away
\* from the region, out of the store.
C7_Witness ==
    /\ tmx.Infinite
    /\ out[1].ran /\ ~out[1].err /\ out[1].decoded # <<>>
    /\ \E i \in 1..Len(tmx.Layers[1].Chunks) :
          /\ ~Intersects(region, RectOf(1, i))
          /\ RectOf(1, i) \notin DOMAIN partitions[1]

\* C8: over any sequence of queries the partition store only grows: an entry
\* is never removed and its tile list is never replaced or changed.
C8_StoreOnlyGrows ==
    [][\A l \in LayerIds :
          \A rect \in DOMAIN partitions[l] :
             /\ rect \in DOMAIN partitions'[l]
             /\ partitions'[l][rect] = partitions[l][rect]]_vars

\* The last query decoded a chunk while the store holds the entry of a
\* chunk that lies away from its region, inserted by an earlier query.
C8_Witness ==
    /\ tmx.Infinite
    /\ out[1].ran /\ out[1].decoded # <<>>
    /\ \E rect \in DOMAIN partitions[1] :
          /\ outside_region(region, rect.X, rect.Y, MaxX(rect), MaxY(rect))
          /\ partitions[1][rect] # <<>>

\* C9: on the full MapSize x MapSize map, the query of the region from (0,0)
\* of five cells by five cells returns exactly the 25 tiles of columns 0-4
\* and rows 0-4.
C9_FiveByFiveReturnsTwentyFive ==
    (/\ tmx = FullMap
     /\ region = NewRect64(0, 0, 5 * tmx.TileWidth, 5 * tmx.TileHeight)
     /\ out[1].ran)
       => /\ Len(out[1].tiles) = 25
          /\ \A k \in 1..Len(out[1].tiles) :
                /\ out[1].tiles[k].X < 5 * tmx.TileWidth
                /\ out[1].tiles[k].Y < 5 * tmx.TileHeight

\* The cells of layer l that hold a tile of some tileset and are not outside
\* the region.
ResolvableCells(l) ==
    LET InRegion(cells) ==
            {i \in 1..Len(cells) :
                /\ TileId(cells[i]) # 0
                /\ FindTilesetByTileGID(tmx.Tilesets, TileId(cells[i])) # 0
                /\ is_tile_in_region(region,
                                     ((i - 1) % tmx.Layers[l].Width) * tmx.TileWidth,
                                     ((i - 1) \div tmx.Layers[l].Width) * tmx.TileHeight,
                                     tmx.TileWidth, tmx.TileHeight)}
    IN InRegion(parseCsvData(tmx.Layers[l].Data).data)

\* C10: a cell whose GID has no tileset is the only tile a query skips: the
\* layer's query is not aborted and returns every other non-empty cell that
\* intersects the region.
C10_UnresolvedGidSkipsOnlyThatTile ==
    \A l \in LayerIds :
       (~tmx.Infinite /\ out[l].ran /\ parseCsvData(tmx.Layers[l].Data).ok) =>
          /\ out[l].failed # "processTiles"
          /\ Len(out[l].tiles) = Cardinality(ResolvableCells(l))

(***************************************************************************)
(* Properties of the cell codec and the render transform                   *)
(***************************************************************************)

FirstGIDs(tilesets) == [i \in 1..Len(tilesets) |-> tilesets[i].FirstGID]

Ascending(tilesets) ==
    \A i, j \in 1..Len(tilesets) : i < j => tilesets[i].FirstGID < tilesets[j].FirstGID

\* The first-global-ids of the list that are <= gid.
Owners(tilesets, gid) == {f \in {tilesets[i].FirstGID : i \in 1..Len(tilesets)} : f <= gid}

GreatestOwner(tilesets, gid) ==
    CHOOSE f \in Owners(tilesets, gid) : \A g \in Owners(tilesets, gid) : g <= f

\* C11: on a list in ascending order of first-global-id, the tileset found
\* for a gid is the one with the greatest first-global-id <= gid, and the
\* local tile index is gid minus it; [1, 50, 120] and gid 75 give 50 and 25.
C11_GreatestFirstGidNotAbove ==
    (arg.kind = "cell" /\ Ascending(arg.tilesets)
        /\ Owners(arg.tilesets, TileId(arg.data)) # {}) =>
       /\ ret.fn = "FindTilesetByTileGID" =>
             /\ ret.val.exists
             /\ arg.tilesets[ret.val.index].FirstGID
                   = GreatestOwner(arg.tilesets, TileId(arg.data))
             /\ ret.val.tile = TileId(arg.data) - GreatestOwner(arg.tilesets, TileId(arg.data))
             /\ (FirstGIDs(arg.tilesets) = <<1, 50, 120>> /\ arg.data = U32(75)) =>
                   (ret.val.index = 2 /\ ret.val.tile = 25)
       /\ (ret.fn = "decodeTile" /\ TileId(arg.data) # 0) =>
             /\ ret.val.kind = "tile"
             /\ ret.val.tile.GID
                   = TileId(arg.data) - GreatestOwner(arg.tilesets, TileId(arg.data))

\* gid 75 looked up in the tilesets starting at 1, 50 and 120.
C11_Witness ==
    /\ ret.fn = "FindTilesetByTileGID"
    /\ FirstGIDs(arg.tilesets) = <<1, 50, 120>>
    /\ arg.data = U32(75)
    /\ ret.val.exists /\ ret.val.index = 2

\* C12: resolution reports an error, and not a skipped tile, for gid 0, for a
\* gid below every first-global-id, and for an empty tileset list.
C12_NoOwnerIsAnError ==
    (arg.kind = "cell"
        /\ (TileId(arg.data) = 0 \/ Owners(arg.tilesets, TileId(arg.data)) = {})) =>
       /\ ret.fn = "decodeTile" => ret.val.kind = "err"
       /\ ret.fn = "FindTilesetByTileGID" => ~ret.val.exists

\* raw AND 0x1FFFFFFF, from the bits of the two halves: bits 0-12 of the
\* upper half are bits 16-28 of the value.
RECURSIVE LowBits(_, _)
LowBits(n, k) == IF k = 0 THEN 0 ELSE (n % 2) + 2 * LowBits(n \div 2, k - 1)

And1FFFFFFF(u) == LowBits(u.hi, 13) * Half + LowBits(u.lo, 16)

\* C13: for every raw cell value the decoded tile index is raw AND 0x1FFFFFFF.
C13_TileIndexIsMasked ==
    arg.kind = "cell" =>
       /\ ret.fn = "DecodeTile" => ret.val.GID = And1FFFFFFF(arg.data)
       /\ ret.fn = "decodeTile" =>
             /\ ret.val.kind = "empty" <=> And1FFFFFFF(arg.data) = 0
             /\ ret.val.kind = "tile" =>
                   \E i \in 1..Len(arg.tilesets) :
                      ret.val.tile.GID + arg.tilesets[i].FirstGID = And1FFFFFFF(arg.data)

\* A cell with flag bits and bits of both halves set, decoded.
C13_Witness ==
    /\ ret.fn = "DecodeTile"
    /\ arg.data.hi >= 32768 /\ arg.data.hi % 2 = 1 /\ arg.data.lo = 75
    /\ ret.val.GID = Half + 75

\* The raw value with the hex-rotate bit (0x10000000) cleared.
WithoutHexRotate(u) == [u EXCEPT !.hi = @ - (IF TILE_FLIP_ROTATED_HEX(u) THEN 4096 ELSE 0)]

\* C14: the tile index has all four transform bits cleared: a raw value
\* decodes to the index, the tileset and the local tile of the raw value
\* without its hex-rotate bit.
C14_HexRotateBitStripped ==
    arg.kind = "cell" =>
       /\ ret.fn = "DecodeTile" =>
             /\ ret.val.GID < 4096 * Half
             /\ ret.val.GID = DecodeTile(WithoutHexRotate(arg.data)).GID
       /\ ret.fn = "decodeTile" =>
             LET Same(other) ==
                    /\ ret.val.kind = other.kind
                    /\ ret.val.kind = "tile" =>
                          (ret.val.tile.GID = other.tile.GID
                              /\ ret.val.tile.TsxSrc = other.tile.TsxSrc)
             IN Same(decodeTile(WithoutHexRotate(arg.data), arg.tilesets, arg.cellHeight))

\* C15: each decoded flag is set exactly when its own high bit is set in the
\* raw value, whatever the other three bits are.
C15_FlagIsItsOwnBit ==
    arg.kind = "cell" =>
       /\ ret.fn = "DecodeTile" =>
             /\ ret.val.HorizontalFlip <=> (arg.data.hi \div 32768) % 2 = 1
             /\ ret.val.VerticalFlip <=> (arg.data.hi \div 16384) % 2 = 1
             /\ ret.val.DiagonalFlip <=> (arg.data.hi \div 8192) % 2 = 1
             /\ ret.val.HexagonalRotate <=> (arg.data.hi \div 4096) % 2 = 1
       /\ (ret.fn = "decodeTile" /\ ret.val.kind = "tile") =>
             /\ "FLIP_HORIZONTAL" \in ret.val.tile.Flags <=> (arg.data.hi \div 32768) % 2 = 1
             /\ "FLIP_VERTICAL" \in ret.val.tile.Flags <=> (arg.data.hi \div 16384) % 2 = 1
             /\ "FLIP_DIAGONAL" \in ret.val.tile.Flags <=> (arg.data.hi \div 8192) % 2 = 1
             /\ "FLIP_ROTATED_HEX" \in ret.val.tile.Flags <=> (arg.data.hi \div 4096) % 2 = 1

\* Rotate 90 degrees, scale X by -1, translate by (h - w, 0), scale X by -1,
\* translate by (w, 0), translate by (px, py), worked out by hand:
\* x' = -y + 2w - h + px, y' = x + py.
DiagonalHorizontalMatrix(w, h, px, py) ==
    [a |-> 0, b |-> -1, tx |-> 2 * w - h + px, c |-> 1, d |-> 0, ty |-> py]

\* C16: the transform of a tile is built from the diagonal steps, then the
\* horizontal steps, then the vertical steps, then the translation to the
\* tile's position; with diagonal and horizontal flip set it is the matrix of
\* that sequence.
C16_DiagonalThenHorizontalThenVertical ==
    /\ (ret.fn = "drawMapLayer" /\ ret.flags = {"FLIP_DIAGONAL", "FLIP_HORIZONTAL"}) =>
          ret.val = DiagonalHorizontalMatrix(ret.tile.Width, ret.tile.Height,
                                             ret.tile.X, ret.tile.Y)
    /\ (ret.fn = "blit_tile" /\ ret.flags = {"FLIP_DIAGONAL", "FLIP_HORIZONTAL"}
          /\ ret.val.kind = "ok") =>
             ret.val.GeoM =
                DiagonalHorizontalMatrix(ret.tsx.TileWidth, ret.tsx.TileHeight,
                                         ret.at.x + ret.tsx.OffsetX + ret.at.dx,
                                         ret.at.y + ret.tsx.OffsetY + ret.at.dy
                                            + arg.cellHeight - ret.tsx.TileHeight)

(***************************************************************************)
(* Properties of the CSV layer payloads                                    *)
(***************************************************************************)

CsvParsed == arg.kind = "csv" /\ ret.fn \in {"parseCsvData", "parse_csv_layer_data"}

\* What the fields of the model denote, read off the text.
FieldIsBlank(f) == f \in { <<>>, <<" ">> }

FieldIsNumeral(f) == f \in { <<"1">>, <<"2">>, <<" ", "3">>, <<"1", "0">> }

FieldValue(f) ==
    CASE f = <<"1">> -> 1 [] f = <<"2">> -> 2 [] f = <<" ", "3">> -> 3 [] f = <<"1", "0">> -> 10

NotBlank(f) == ~FieldIsBlank(f)

ExpectedCells(fields) ==
    LET Values(kept) == [i \in 1..Len(kept) |-> U32(FieldValue(kept[i]))]
    IN Values(SelectSeq(fields, NotBlank))

\* C17: CSV decoding splits on commas, trims each token, skips the empty
\* ones (doubled and trailing commas included) and returns the values of the
\* others in payload order; "1,2,, 3," decodes to [1,2,3].
C17_CsvSkipsEmptyTokens ==
    CsvParsed =>
       /\ (\A i \in 1..Len(arg.fields) :
              FieldIsBlank(arg.fields[i]) \/ FieldIsNumeral(arg.fields[i])) =>
             (ret.val.ok /\ ret.val.data = ExpectedCells(arg.fields))
       /\ arg.fields = DoubledAndTrailingCommas =>
             (ret.val.ok /\ ret.val.data = <<U32(1), U32(2), U32(3)>>)

\* "1,2,, 3," decoded to three cells.
C17_Witness ==
    /\ CsvParsed
    /\ arg.data = <<"1", ",", "2", ",", ",", " ", "3", ",">>
    /\ ret.val.ok /\ Len(ret.val.data) = 3

\* C18: CSV decoding returns an error and no cells whenever a non-empty
\* token is not a non-negative base-10 integer, be it a word or a negative
\* number.
C18_CsvRejectsNonNaturals ==
    (CsvParsed /\ \E i \in 1..Len(arg.fields) :
                     ~FieldIsBlank(arg.fields[i]) /\ ~FieldIsNumeral(arg.fields[i])) =>
       (~ret.val.ok /\ ret.val.data = <<>>)

(***************************************************************************)
(* Properties of the XML attributes                                        *)
(***************************************************************************)

\* C19: an Integer attribute is a strict base-10 parse of the whole value: a
\* value with any content that is not a digit is a parse error and stores
\* nothing in the table.
C19_IntegerParseIsStrict ==
    [][(attrs'.name \in IntAttrs
           /\ \E i \in 1..Len(attrs'.value) : attrs'.value[i] \notin Digits) =>
          (attrs'.err /\ attrs'.table = attrs.table)]_vars

\* C20: an attribute whose name is outside the vocabulary returns no error
\* and leaves the table as it was, whatever its value.
C20_UnknownAttributeIgnored ==
    [][(attrs'.name \notin (StringAttrs \cup BoolAttrs \cup IntAttrs)) =>
          (~attrs'.err /\ attrs'.table = attrs.table /\ attrs'.nil = attrs.nil)]_vars

\* An unknown attribute was parsed after others were stored, and the table
\* still holds them.
C20_Witness ==
    /\ attrs.name = "opacity"
    /\ attrs.value = <<"a", "b", "c">>
    /\ ~attrs.err
    /\ DOMAIN attrs.table = {"width", "visible"}

(***************************************************************************)
(* Documents: the tileset importer, load_tsx's decode and the validators   *)
(***************************************************************************)

\* A relative path is the sequence of its segments: "maps/t.tsx" is
\* <<"maps", "t.tsx">>, "" is <<>>, "." is <<".">>, and "a//b" has an empty
\* segment between a and b.

\* path.Clean on a relative path: empty segments and "." segments are
\* dropped, a ".." removes the segment before it and stays when there is none
\* to remove, and a path with nothing left is ".".
RECURSIVE Clean(_, _)
Clean(rest, acc) ==
    IF rest = <<>> THEN (IF acc = <<>> THEN <<".">> ELSE acc)
    ELSE IF Head(rest) \in {"", "."}
    THEN Clean(Tail(rest), acc)
    ELSE IF Head(rest) = ".." /\ acc # <<>> /\ acc[Len(acc)] # ".."
    THEN Clean(Tail(rest), SubSeq(acc, 1, Len(acc) - 1))
    ELSE Clean(Tail(rest), Append(acc, Head(rest)))

\* path.Dir(p): p without its last segment, cleaned.
Dir(p) == Clean(SubSeq(p, 1, Len(p) - 1), <<>>)

\* resolveSourcePath(basePath, source): path.Join(path.Dir(basePath), source),
\* which drops an empty source and cleans the joined path, cleaned again.
resolveSourcePath(basePath, source) == Clean(Clean(Dir(basePath) \o source, <<>>), <<>>)

\* A nil TiledXMLAttrTable.
NilTable == [nil |-> TRUE, table |-> <<>>]

\* xml.Unmarshal of an element's attributes into a TiledXMLAttrTable field
\* tagged ",any,attr": UnmarshalXMLAttr on each attribute in turn, stopping at
\* the first error.  The table stays nil until an attribute of the vocabulary
\* is met.
RECURSIVE UnmarshalAttrs(_, _)
UnmarshalAttrs(list, acc) ==
    LET Put(parsed, a) ==
            IF parsed.ok
            THEN UnmarshalAttrs(Tail(list),
                     [nil |-> FALSE,
                      table |-> [n \in DOMAIN acc.table \cup {a.name} |->
                                    IF n = a.name THEN parsed.val ELSE acc.table[n]]])
            ELSE [err |-> TRUE, Attrs |-> NilTable]
    IN IF list = <<>> THEN [err |-> FALSE, Attrs |-> acc]
       ELSE IF attr_unmarshaller(Head(list).name) = "none"
       THEN UnmarshalAttrs(Tail(list), acc)
       ELSE Put(unmarshal(attr_unmarshaller(Head(list).name), Head(list).value), Head(list))

\* xml.Unmarshal(data, &tsx) for the TSX of types.go: Image is a *TSXImage,
\* nil when the document has no image element.
UnmarshalTSX(doc) ==
    LET Image(u) ==
            IF u.err THEN [err |-> TRUE]
            ELSE [err |-> FALSE, tsx |-> [Image |-> [nil |-> FALSE, Attrs |-> u.Attrs]]]
    IN IF ~doc.wellFormed THEN [err |-> TRUE]
       ELSE IF ~doc.image.present
       THEN [err |-> FALSE, tsx |-> [Image |-> [nil |-> TRUE, Attrs |-> NilTable]]]
       ELSE Image(UnmarshalAttrs(doc.image.attrs, NilTable))

\* (img TSXImage) Source(): the string under "source", "" (the empty path)
\* when the table has none; a lookup in a nil table finds nothing.
Source(img) ==
    IF "source" \in DOMAIN img.Attrs.table /\ img.Attrs.table["source"].type = "AttrString"
    THEN img.Attrs.table["source"].v
    ELSE <<>>

\* ProcessAssetFile of the TSX importer: xml.Unmarshal, then
\* tsx.Image.Attrs[SourceAttr] = AttrString(resolveSourcePath(file.Path(), tsx.Image.Source())).
\* tsx.Image.Source() copies *tsx.Image for its value receiver, a nil pointer
\* dereference when Image is nil; the assignment writes to a nil map when
\* the image element had no attribute of the vocabulary.
ProcessAssetFile(basePath, doc) ==
    LET Resolved(tsx) ==
            IF tsx.Image.nil
            THEN [kind |-> "panic", what |-> "nil pointer dereference"]
            ELSE IF tsx.Image.Attrs.nil
            THEN [kind |-> "panic", what |-> "assignment to entry in nil map"]
            ELSE [kind |-> "ok",
                  tsx |-> [Image |-> [nil |-> FALSE,
                                      Attrs |-> [nil |-> FALSE,
                                                 table |-> [n \in DOMAIN tsx.Image.Attrs.table \cup {"source"} |->
                                                     IF n = "source"
                                                     THEN [type |-> "AttrString",
                                                           v |-> resolveSourcePath(basePath, Source(tsx.Image))]
                                                     ELSE tsx.Image.Attrs.table[n]]]]]]
        Imported(u) == IF u.err THEN [kind |-> "error", what |-> "xml"] ELSE Resolved(u.tsx)
    IN Imported(UnmarshalTSX(doc))

\* encoding/xml's copy of an attribute into an int field: an empty value
\* leaves 0; otherwise strconv.ParseInt of the trimmed value.
IntFieldOk(value) == value = <<>> \/ Atoi(TrimSpace(value)).ok

\* xml.Unmarshal(data, &tsx) for the TSX of the resource system (tsx.go):
\* Image is a TSXImage value whose Source field is "" without an image
\* element or without a source attribute; Width and Height are int fields.
UnmarshalTSXStruct(doc) ==
    LET SourceOf(attrList) ==
            IF \E i \in 1..Len(attrList) : attrList[i].name = "source"
            THEN attrList[CHOOSE i \in 1..Len(attrList) : attrList[i].name = "source"].value
            ELSE <<>>
    IN IF ~doc.wellFormed THEN [err |-> TRUE]
       ELSE IF \E i \in 1..Len(doc.image.attrs) :
                   /\ doc.image.attrs[i].name \in {"width", "height"}
                   /\ ~IntFieldOk(doc.image.attrs[i].value)
       THEN [err |-> TRUE]
       ELSE [err |-> FALSE,
             tsx |-> [Image |-> [Source |-> IF doc.image.present
                                            THEN SourceOf(doc.image.attrs) ELSE <<>>]]]

\* (tsx *TSX) IsValid(): the image source is required.
TSX_IsValid(tsx) == tsx.Image.Source # <<>>

\* The decode of load_tsx: xml.Unmarshal, IsValid, and the tileset it would
\* store in rs.tilesets.
load_tsx_decode(doc) ==
    LET Checked(u) ==
            IF u.err THEN [kind |-> "error", what |-> "xml"]
            ELSE IF ~TSX_IsValid(u.tsx) THEN [kind |-> "error", what |-> "tsx image source is required"]
            ELSE [kind |-> "ok", tsx |-> u.tsx]
    IN Checked(UnmarshalTSXStruct(doc))

\* Image elements: none; one without attributes; one with an attribute
\* outside the vocabulary only; one with a size and no source; complete ones,
\* one with a bad width and one whose width starts with a carriage return;
\* and sources with a "." segment, of ".." alone, and with an empty segment.
ImageElements ==
    { [present |-> FALSE, attrs |-> <<>>],
      [present |-> TRUE, attrs |-> <<>>],
      [present |-> TRUE, attrs |-> <<[name |-> "trans", value |-> <<"f", "f">>]>>],
      [present |-> TRUE, attrs |-> <<[name |-> "width", value |-> <<"4">>]>>],
      [present |-> TRUE, attrs |-> <<[name |-> "source", value |-> <<"t.png">>],
                                     [name |-> "width", value |-> <<"4">>]>>],
      [present |-> TRUE, attrs |-> <<[name |-> "width", value |-> <<"4">>],
                                     [name |-> "source", value |-> <<"..", "img", "t.png">>]>>],
      [present |-> TRUE, attrs |-> <<[name |-> "source", value |-> <<"t.png">>],
                                     [name |-> "width", value |-> <<"a">>]>>],
      [present |-> TRUE, attrs |-> <<[name |-> "source", value |-> <<"t.png">>],
                                     [name |-> "width", value |-> <<"\r", "4">>]>>],
      [present |-> TRUE, attrs |-> <<[name |-> "source", value |-> <<".", "t.png">>]>>],
      [present |-> TRUE, attrs |-> <<[name |-> "source", value |-> <<"..">>]>>],
      [present |-> TRUE, attrs |-> <<[name |-> "source", value |-> <<"img", "", "t.png">>]>>] }

TsxPaths == { <<"t.tsx">>, <<"maps", "t.tsx">> }

TsxDocs ==
    [kind : {"tsx"}, path : TsxPaths, wellFormed : BOOLEAN, image : ImageElements]

\* The TSX importer on a tileset document.
ApplyProcessAssetFile ==
    /\ arg.kind = "tsx"
    /\ ret' = [fn |-> "ProcessAssetFile", val |-> ProcessAssetFile(arg.path, arg)]
    /\ UNCHANGED <<arg, attrs, project>>
    /\ UNCHANGED <<loadVars, queryVars>>

\* The decode of load_tsx on a tileset document.
ApplyLoadTsxDecode ==
    /\ arg.kind = "tsx"
    /\ ret' = [fn |-> "load_tsx", val |-> load_tsx_decode(arg)]
    /\ UNCHANGED <<arg, attrs, project>>
    /\ UNCHANGED <<loadVars, queryVars>>

\* TMXOrientation.IsValid, TMXRenderOrder.IsValid, TMXEncoding.IsValid
Orientation_IsValid(o) == o \in {"orthogonal", "isometric", "staggered", "hexagonal"}

RenderOrder_IsValid(ro) == ro \in {"right-down", "right-up", "left-down", "left-up"}

Encoding_IsValid(e) == e \in {"csv", "base64"}

\* The index of the first TRUE of a sequence of booleans, 0 when there is none.
FirstBad(bad) ==
    IF \E i \in 1..Len(bad) : bad[i]
    THEN CHOOSE i \in 1..Len(bad) : bad[i] /\ \A j \in 1..(i - 1) : ~bad[j]
    ELSE 0

\* (tmx *TMX) IsValid(): "ok", or the first check that fails.
TMX_IsValid(doc) ==
    LET BadTileset(ts) == ts.FirstGID <= 0 \/ ts.Source = ""
        BadLayer(layer) == layer.ID <= 0 \/ ~Encoding_IsValid(layer.Encoding)
        TilesetError(ts) ==
            IF ts.FirstGID <= 0 THEN "invalid tileset firstgid" ELSE "tileset source is empty"
        LayerError(layer) ==
            IF layer.ID <= 0 THEN "invalid layer id" ELSE "invalid layer data encoding"
        badTileset == FirstBad([i \in 1..Len(doc.Tilesets) |-> BadTileset(doc.Tilesets[i])])
        badLayer == FirstBad([i \in 1..Len(doc.Layers) |-> BadLayer(doc.Layers[i])])
    IN IF ~Orientation_IsValid(doc.Orientation) THEN "invalid map orientation"
       ELSE IF ~RenderOrder_IsValid(doc.RenderOrder) THEN "invalid map render order"
       ELSE IF doc.TileWidth <= 0 \/ doc.TileHeight <= 0 THEN "invalid tile size"
       ELSE IF doc.Width <= 0 \/ doc.Height <= 0 THEN "invalid map size"
       ELSE IF badTileset # 0 THEN TilesetError(doc.Tilesets[badTileset])
       ELSE IF badLayer # 0 THEN LayerError(doc.Layers[badLayer])
       ELSE "ok"

\* The decode of load_tmx in the system s: xml.Unmarshal, then IsValid where
\* the system calls it; "ok" means the document goes on to rs.tilemaps[key].
load_tmx_decode(s, doc) ==
    IF ~doc.wellFormed THEN [kind |-> "error", what |-> "xml"]
    ELSE IF Validates(s) /\ TMX_IsValid(doc) # "ok"
    THEN [kind |-> "error", what |-> TMX_IsValid(doc)]
    ELSE [kind |-> "ok", tmx |-> doc]

\* The file class of the coordinator a map document belongs to.
FileOf(doc) ==
    IF ~doc.wellFormed THEN "malformed"
    ELSE IF TMX_IsValid(doc) # "ok" THEN "invalid"
    ELSE "good"

\* Grid dimensions of the documents: negative, zero and positive.
DimValues == {0 - 1, 0, 3}

TmxTilesetLists ==
    { <<>>, <<[FirstGID |-> 1, Source |-> "t.tsx"]>>,
      <<[FirstGID |-> 1, Source |-> "t.tsx"], [FirstGID |-> 0, Source |-> "u.tsx"]>>,
      <<[FirstGID |-> 1, Source |-> ""]>> }

TmxLayerLists ==
    { <<[ID |-> 1, Encoding |-> "csv"]>>,
      <<[ID |-> 0, Encoding |-> "csv"]>>,
      <<[ID |-> 1, Encoding |-> "csv"], [ID |-> 2, Encoding |-> "zlib"]>> }

TmxDocs ==
    [kind : {"tmx"}, wellFormed : BOOLEAN,
     Orientation : {"orthogonal", "oblique"}, RenderOrder : {"right-down", ""},
     Width : DimValues, Height : DimValues, TileWidth : DimValues, TileHeight : DimValues,
     Tilesets : TmxTilesetLists, Layers : TmxLayerLists]

\* tmx.IsValid() on a map document.
ApplyTMXIsValid ==
    /\ arg.kind = "tmx"
    /\ arg.wellFormed
    /\ ret' = [fn |-> "TMX.IsValid", val |-> TMX_IsValid(arg)]
    /\ UNCHANGED <<arg, attrs, project>>
    /\ UNCHANGED <<loadVars, queryVars>>

\* The decode of load_tmx on a map document, in a TMX resource system.
ApplyLoadTmxDecode(s) ==
    /\ arg.kind = "tmx"
    /\ ret' = [fn |-> "load_tmx", system |-> s, val |-> load_tmx_decode(s, arg)]
    /\ UNCHANGED <<arg, attrs, project>>
    /\ UNCHANGED <<loadVars, queryVars>>

\* The declared TiledClassUseAs constants.
TiledClassUseAsConstants ==
    {"property", "map", "layer", "object", "tile", "tileset", "wangcolor", "wangset", "project"}

\* (t TiledClassUseAs) IsValid(): membership in the hash set IsValid builds.
TiledClassUseAs_IsValid(t) ==
    t \in {"property", "map", "layer", "tile", "tileset", "wangcolor", "wangset", "project"}

UseAsStrings == TiledClassUseAsConstants \cup {"", "Object", "objects", "class", "Map"}

\* t.IsValid() on a string.
ApplyUseAsIsValid ==
    /\ arg.kind = "useas"
    /\ ret' = [fn |-> "TiledClassUseAs.IsValid", val |-> TiledClassUseAs_IsValid(arg.value)]
    /\ UNCHANGED <<arg, attrs, project>>
    /\ UNCHANGED <<loadVars, queryVars>>

DocInit ==
    /\ LoadIdle
    /\ QueryIdle
    /\ arg \in TsxDocs \cup TmxDocs \cup [kind : {"useas"}, value : UseAsStrings]
    /\ ret = [fn |-> "none"]
    /\ attrs = NoAttrs
    /\ project = NoProject

DocNext ==
    \/ ApplyProcessAssetFile
    \/ ApplyLoadTsxDecode
    \/ ApplyTMXIsValid
    \/ \E s \in {"tmx", "tmx_valid"} : ApplyLoadTmxDecode(s)
    \/ ApplyUseAsIsValid

SpecDocs == DocInit /\ [][DocNext]_vars

(***************************************************************************)
(* Properties of the documents                                             *)
(***************************************************************************)

\* C21: decoding a tileset document without an image element ends in an
\* error returned to the caller, in the importer and in load_tsx alike: never
\* in a panic and never in a tileset handed on without an image.
C21_MissingImageIsAnError ==
    (ret.fn \in {"ProcessAssetFile", "load_tsx"} /\ arg.wellFormed /\ ~arg.image.present)
        => ret.val.kind = "error"

\* C22: a map document with a grid dimension that is not greater than 0 is
\* never accepted by the decode of load_tmx, in either TMX resource system.
C22_BadGridIsNeverStored ==
    (ret.fn = "load_tmx"
        /\ (arg.Width <= 0 \/ arg.Height <= 0 \/ arg.TileWidth <= 0 \/ arg.TileHeight <= 0))
        => ret.val.kind = "error"

\* C30: IsValid is true for each declared constant and false for every
\* other string.
C30_IsValidIffDeclared ==
    ret.fn = "TiledClassUseAs.IsValid" =>
        (ret.val <=> arg.value \in TiledClassUseAsConstants)

(***************************************************************************)
(* Further properties of the load coordinator                              *)
(***************************************************************************)

\* C23: at any time at most one worker is between a successful try_load of
\* a key and the return of its load, and no worker reaches the store of a
\* key that already has a document in the loaded map.
C23_SingleLoaderNeverOverwrites ==
    /\ [](\A k \in Keys : Cardinality({w \in Workers : InSection(w) /\ call[w].key = k}) <= 1)
    /\ [][\A w \in Workers :
            (pc[w] = "store" /\ pc'[w] # "store") =>
               /\ loaded[call[w].key] = NoDoc
               /\ loaded'[call[w].key] # NoDoc
               /\ \A k \in Keys \ {call[w].key} : loaded'[k] = loaded[k]]_vars

\* A worker has stored its document and not yet returned, while the other
\* worker's overlapping load of the same key has been turned away.
C23_Witness ==
    \E w, v \in Workers :
       /\ w # v
       /\ pc[w] = "deferred"
       /\ res[w] = "ok"
       /\ loaded[call[w].key] # NoDoc
       /\ v \in conc[w]
       /\ pc[v] = "returned"
       /\ call[v].key = call[w].key
       /\ ~Passed(v)

\* C28: GenerateMetadata runs the guarded load of Load.  When it returns
\* without error the key is Loaded with the document of this call, and the
\* metadata holds one key per reference of the document, in document order
\* ("t1" and "t.2" for the tilesets of the good map).  A call of either
\* entry point whose try_load finds the key Loaded returns the
\* already-loaded error and changes nothing.
C28_GenerateMetadataIsGuardedLoad ==
    /\ [](\A w \in Workers :
            (call[w].op = "GenerateMetadata" /\ pc[w] = "returned" /\ res[w] = "ok") =>
               /\ loaded[call[w].key] = call[w].file
               /\ call[w].key \notin loading
               /\ metadata[w].written
               /\ Len(metadata[w].refs) = Len(DocumentSources(rs, call[w].file))
               /\ \A i \in 1..Len(metadata[w].refs) :
                     metadata[w].refs[i] = KeyFromPath(DocumentSources(rs, call[w].file)[i])
               /\ (rs # "tsx" /\ call[w].file = "good") =>
                     metadata[w].refs = << <<"t", "1">>, <<"t", ".", "2">> >>)
    /\ [][\A w \in Workers :
            (pc[w] = "try_load" /\ pc'[w] # "try_load" /\ loaded[call[w].key] # NoDoc) =>
               /\ pc'[w] = "returned"
               /\ res'[w] = "err_already_loaded"
               /\ loaded' = loaded
               /\ loading' = loading]_vars

\* GenerateMetadata has loaded the good map and recorded its two tileset
\* keys, and a Load of the key that did not overlap it was turned away as
\* already loaded.
C28_Witness ==
    \E w, v \in Workers :
       /\ w # v
       /\ rs = "tmx"
       /\ call[w].op = "GenerateMetadata"
       /\ pc[w] = "returned"
       /\ res[w] = "ok"
       /\ metadata[w].refs = << <<"t", "1">>, <<"t", ".", "2">> >>
       /\ call[v].op = "Load"
       /\ call[v].key = call[w].key
       /\ pc[v] = "returned"
       /\ res[v] = "err_already_loaded"
       /\ w \notin conc[v]

(***************************************************************************)
(* Further properties of the region queries                                *)
(***************************************************************************)

\* C24: once a query has decoded a finite layer's dense list, no later query
\* decodes the layer again or changes the list, whatever the layer holds.
C24_DenseListDecodedOnce ==
    [][\A l \in LayerIds :
          (~tmx.Infinite /\ out[l].ran /\ out[l].failed # "processTiles"
             /\ region' # region) =>
             /\ out'[l].decoded = <<>>
             /\ layerTiles'[l] = layerTiles[l]]_vars

(***************************************************************************)
(* Tile placement: decodeTiles as processTiles and processChunks call it   *)
(***************************************************************************)

\* The most cells of a grid of the placement specification.
MaxCells == 4

\* The cell size of the grids, in pixels.
GridCellWidth == 2

GridCellHeight == 2

\* A tileset of tiles lower than the cell, with a tile offset upwards.
Tsx1x1 ==
    [ok |-> TRUE, TileWidth |-> 1, TileHeight |-> 1,
     OffsetNil |-> FALSE, OffsetX |-> 0, OffsetY |-> 0 - 1,
     ImageWidth |-> 4, img |-> [ok |-> TRUE, Dx |-> 4]]

ShortTilesetFrom(gid) == [FirstGID |-> gid, Source |-> "short.tsx", tsx |-> Tsx1x1]

\* Tilesets of tiles taller than the cell (with an offset to the right, and
\* without a tile offset), as tall as the cell, and lower than it.
GridTilesetLists ==
    { <<TallTilesetFrom(1)>>,
      <<TilesetFrom(1), TallTilesetFrom(5)>>,
      <<ShortTilesetFrom(1), TallTilesetFrom(5)>>,
      <<ShortTilesetFrom(1), TallTilesetOf(5, NoTileOffset(Tsx2x3))>> }

\* Cell values: empty, a tile of the first tileset, a tile of the last.
GridCells == { <<"0">>, <<"1">>, <<"5">> }

\* Grids: up to MaxCells cell values laid out in rows of Width cells, for a
\* finite layer, or for a chunk at cell (X, Y).
Grids ==
    [kind : {"grid"}, cells : SeqsUpTo(GridCells, MaxCells), tilesets : GridTilesetLists,
     Width : {1, 2}, X : {0, 3}, Y : {0, 0 - 2}]

\* decodeTiles as processTiles calls it for a finite layer: the origin is (0, 0).
ApplyDecodeLayerTiles ==
    /\ arg.kind = "grid"
    /\ ret' = [fn |-> "processTiles", originX |-> 0, originY |-> 0,
               val |-> decodeTiles(Join(arg.cells), arg.tilesets, 0, 0,
                                   arg.Width * GridCellWidth, 2 * GridCellHeight,
                                   GridCellWidth, GridCellHeight)]
    /\ UNCHANGED <<arg, attrs, project>>
    /\ UNCHANGED <<loadVars, queryVars>>

\* decodeTiles as processChunks calls it for a chunk: the origin is the
\* chunk's corner in pixels.
ApplyDecodeChunkTiles ==
    /\ arg.kind = "grid"
    /\ ret' = [fn |-> "processChunks",
               originX |-> arg.X * GridCellWidth, originY |-> arg.Y * GridCellHeight,
               val |-> decodeTiles(Join(arg.cells), arg.tilesets,
                                   arg.X * GridCellWidth, arg.Y * GridCellHeight,
                                   arg.Width * GridCellWidth, 2 * GridCellHeight,
                                   GridCellWidth, GridCellHeight)]
    /\ UNCHANGED <<arg, attrs, project>>
    /\ UNCHANGED <<loadVars, queryVars>>

GridInit ==
    /\ LoadIdle
    /\ QueryIdle
    /\ arg \in Grids
    /\ ret = [fn |-> "none"]
    /\ attrs = NoAttrs
    /\ project = NoProject

GridNext ==
    \/ ApplyDecodeLayerTiles
    \/ ApplyDecodeChunkTiles

SpecGrid == GridInit /\ [][GridNext]_vars

\* The cell holds a tile.
HoldsTile(cell) == cell # <<"0">>

\* The indices of the cells of the grid that hold a tile, in order.
TileCells ==
    LET Holding(i) == HoldsTile(arg.cells[i])
    IN SelectSeq([i \in 1..Len(arg.cells) |-> i], Holding)

\* The tileset that owns a cell value of the grid: the last one for "5" when
\* there are two, the first one otherwise.
OwnerOf(cell) ==
    IF cell = <<"5">> /\ Len(arg.tilesets) = 2 THEN arg.tilesets[2].tsx ELSE arg.tilesets[1].tsx

\* C26: the k-th tile of a decode is the tile of the k-th non-empty cell; for
\* the cell of index i (from 0) its left edge is at
\* originX + (i mod cellsPerRow) * cellWidth + offsetX, and its bottom edge at
\* the bottom of row i div cellsPerRow plus offsetY, for a finite layer and
\* for a chunk alike.
C26_TileBottomOnCellBottom ==
    (arg.kind = "grid" /\ ret.fn \in {"processTiles", "processChunks"}) =>
       /\ ret.val.ok
       /\ Len(ret.val.tiles) = Len(TileCells)
       /\ \A k \in 1..Len(TileCells) :
             /\ ret.val.tiles[k].X =
                   ret.originX + ((TileCells[k] - 1) % arg.Width) * GridCellWidth
                      + OwnerOf(arg.cells[TileCells[k]]).OffsetX
             /\ ret.val.tiles[k].Y + ret.val.tiles[k].Height =
                   ret.originY + ((TileCells[k] - 1) \div arg.Width) * GridCellHeight
                      + GridCellHeight + OwnerOf(arg.cells[TileCells[k]]).OffsetY
             /\ ret.val.tiles[k].Height = OwnerOf(arg.cells[TileCells[k]]).TileHeight

\* A chunk away from the origin was decoded into a tile taller than its
\* cell in the second row and a tile lower than its cell before it.
C26_Witness ==
    /\ arg.kind = "grid"
    /\ ret.fn = "processChunks"
    /\ arg.X = 3 /\ arg.Y = 0 - 2 /\ arg.Width = 2
    /\ arg.cells = << <<"1">>, <<"0">>, <<"0">>, <<"5">> >>
    /\ arg.tilesets = <<ShortTilesetFrom(1), TallTilesetFrom(5)>>
    /\ Len(ret.val.tiles) = 2
    /\ ret.val.tiles[1].Y = 0 - 4
    /\ ret.val.tiles[2].X = 9
    /\ ret.val.tiles[2].Y = 0 - 3

\* The chunks the last query of layer l handed to the decoder before the one
\* that failed.
DecodedBeforeFailure(o) == {o.decoded[k] : k \in 1..(Len(o.decoded) - 1)}

\* C29: a query of an infinite layer in which the decode of a chunk fails
\* returns the error and no tiles; the failing chunk has no entry in the
\* store, the chunks decoded before it in the query have theirs, every entry
\* the store held before the query is still there unchanged, and a later
\* query whose region selects the failing chunk fails again.
C29_FailedChunkLeavesStoreIntact ==
    /\ [](\A l \in LayerIds :
            (tmx.Infinite /\ out[l].ran /\ out[l].failed = "processTiles") =>
               /\ out[l].err
               /\ out[l].decoded # <<>>
               /\ out[l].tiles = <<>>
               /\ RectOf(l, out[l].decoded[Len(out[l].decoded)]) \notin DOMAIN partitions[l]
               /\ \A i \in DecodedBeforeFailure(out[l]) : RectOf(l, i) \in DOMAIN partitions[l])
    /\ [][\A l \in LayerIds :
            /\ (tmx.Infinite /\ out'[l].ran /\ out'[l].failed = "processTiles") =>
                  /\ \A rect \in DOMAIN partitions[l] :
                        /\ rect \in DOMAIN partitions'[l]
                        /\ partitions'[l][rect] = partitions[l][rect]
                  /\ DOMAIN partitions'[l] =
                        (DOMAIN partitions[l])
                           \cup {RectOf(l, i) : i \in DecodedBeforeFailure(out'[l])}
            /\ (tmx.Infinite /\ out[l].ran /\ out[l].failed = "processTiles"
                  /\ out'[l].ran /\ region' # region
                  /\ chunk_selected(region', RectOf(l, out[l].decoded[Len(out[l].decoded)]),
                                    partitions[l])) =>
                  out'[l].failed = "processTiles"]_vars

\* A query that decoded and stored one chunk and failed on the next one.
C29_Witness ==
    /\ tmx.Infinite
    /\ out[1].ran /\ out[1].failed = "processTiles"
    /\ Len(out[1].decoded) = 2
    /\ RectOf(1, out[1].decoded[1]) \in DOMAIN partitions[1]
    /\ partitions[1][RectOf(1, out[1].decoded[1])] # <<>>
    /\ RectOf(1, out[1].decoded[2]) \notin DOMAIN partitions[1]

(***************************************************************************)
(* The project's custom property types                                     *)
(***************************************************************************)

\* The greater of two integers.
Max2(a, b) == IF a > b THEN a ELSE b

\* The loop of getNextPropertyTypeID over one list: the greatest of maxID
\* and the list's IDs.
RECURSIVE MaxID(_, _)
MaxID(list, maxID) ==
    IF list = <<>> THEN maxID ELSE MaxID(Tail(list), Max2(maxID, Head(list).ID))

\* getNextPropertyTypeID looking at the enum types only.
getNextPropertyTypeID_enums_only(proj) == MaxID(proj.EnumPropertyTypes, 0) + 1

\* getNextPropertyTypeID(proj): one more than the greatest ID of the enum and
\* class types, counted from 0.
getNextPropertyTypeID(proj) ==
    MaxID(proj.ClassPropertyTypes, MaxID(proj.EnumPropertyTypes, 0)) + 1

\* getExistingEnumType / getExistingClassType: the index of the first entry
\* of that name, 0 for nil.
getExistingType(list, name) ==
    IF \E i \in 1..Len(list) : list[i].Name = name
    THEN CHOOSE i \in 1..Len(list) :
            list[i].Name = name /\ \A j \in 1..(i - 1) : list[j].Name # name
    ELSE 0

\* The loop of InsertOrUpdateEnumType / InsertOrUpdateClassType over the
\* definitions: an existing entry is overwritten with the definition under
\* its own ID, a new one is appended under nextID.
RECURSIVE InsertOrUpdate(_, _, _)
InsertOrUpdate(list, definitions, nextID) ==
    LET def == Head(definitions)
        existing == getExistingType(list, def.Name)
    IN IF definitions = <<>> THEN list
       ELSE IF existing # 0
       THEN InsertOrUpdate([list EXCEPT ![existing] = [def EXCEPT !.ID = list[existing].ID]],
                           Tail(definitions), nextID)
       ELSE InsertOrUpdate(Append(list, [def EXCEPT !.ID = nextID]),
                           Tail(definitions), nextID + 1)

\* InsertOrUpdateEnumType(proj, definitions...)
InsertOrUpdateEnumType(definitions) ==
    /\ project' = [EnumPropertyTypes |->
                      InsertOrUpdate(project.EnumPropertyTypes, definitions,
                                     getNextPropertyTypeID(project)),
                   ClassPropertyTypes |-> project.ClassPropertyTypes,
                   fn |-> "InsertOrUpdateEnumType", definitions |-> definitions]
    /\ UNCHANGED <<arg, ret, attrs>>
    /\ UNCHANGED <<loadVars, queryVars>>

\* InsertOrUpdateClassType(proj, definitions...)
InsertOrUpdateClassType(definitions) ==
    /\ project' = [EnumPropertyTypes |-> project.EnumPropertyTypes,
                   ClassPropertyTypes |->
                      InsertOrUpdate(project.ClassPropertyTypes, definitions,
                                     getNextPropertyTypeID(project)),
                   fn |-> "InsertOrUpdateClassType", definitions |-> definitions]
    /\ UNCHANGED <<arg, ret, attrs>>
    /\ UNCHANGED <<loadVars, queryVars>>

\* The most definitions of one call.
MaxDefinitions == 2

\* A property type: its ID, its name, and Body for the rest of its fields.
\* The definitions a caller passes carry an ID of their own.
Definition(name, body) == [ID |-> 2, Name |-> name, Body |-> body]

Definitions == {Definition("a", "p"), Definition("a", "q"), Definition("b", "p")}

Stored(id, name) == [ID |-> id, Name |-> name, Body |-> "old"]

\* The projects the calls start from: the empty one, and projects as
\* UnmarshalJSON builds them from a file, with pairwise distinct IDs: IDs out
\* of order, an ID of 0 and a negative one, and a name listed twice.
InitialProjects ==
    {[NoProject EXCEPT !.EnumPropertyTypes = e, !.ClassPropertyTypes = c] :
        e \in { <<>>, <<Stored(3, "a")>>, <<Stored(0, "b")>>,
                <<Stored(1, "a"), Stored(4, "a")>> },
        c \in { <<>>, <<Stored(2, "a")>>, <<Stored(0 - 5, "b")>> }}

ProjectInit ==
    /\ LoadIdle
    /\ QueryIdle
    /\ arg = [kind |-> "none"]
    /\ ret = [fn |-> "none"]
    /\ attrs = NoAttrs
    /\ project \in InitialProjects

ProjectNext ==
    \/ \E definitions \in SeqsUpTo(Definitions, MaxDefinitions) :
          InsertOrUpdateEnumType(definitions)
    \/ \E definitions \in SeqsUpTo(Definitions, MaxDefinitions) :
          InsertOrUpdateClassType(definitions)

SpecProject == ProjectInit /\ [][ProjectNext]_vars

(***************************************************************************)
(* Properties of the project's custom property types                       *)
(***************************************************************************)

\* The enum types followed by the class types.
AllPropertyTypes(proj) == proj.EnumPropertyTypes \o proj.ClassPropertyTypes

IDsPairwiseDistinct(proj) ==
    LET all == AllPropertyTypes(proj)
    IN \A i, j \in 1..Len(all) : i # j => all[i].ID # all[j].ID

NamesOnce(list) ==
    \A i, j \in 1..Len(list) : i # j => list[i].Name # list[j].Name

DefinedNames(definitions) == {definitions[i].Name : i \in 1..Len(definitions)}

\* The body of the last definition of that name.
LastBody(definitions, name) ==
    LET last == CHOOSE i \in 1..Len(definitions) :
                    /\ definitions[i].Name = name
                    /\ \A j \in (i + 1)..Len(definitions) : definitions[j].Name # name
    IN definitions[last].Body

\* One call took the list from before to after: the entries that were there
\* keep their place, ID and name, the first entry of a defined name takes the
\* definition's body, and the defined names that were missing are appended
\* with IDs above every ID the project held.
UpdatedInPlaceOrAppended(before, after, definitions, held) ==
    /\ Len(after) >= Len(before)
    /\ \A i \in 1..Len(before) :
          /\ after[i].ID = before[i].ID
          /\ after[i].Name = before[i].Name
          /\ after[i].Body =
                IF /\ before[i].Name \in DefinedNames(definitions)
                   /\ \A j \in 1..(i - 1) : before[j].Name # before[i].Name
                THEN LastBody(definitions, before[i].Name)
                ELSE before[i].Body
    /\ \A i \in (Len(before) + 1)..Len(after) :
          /\ after[i].Name \in DefinedNames(definitions)
          /\ \A j \in 1..Len(before) : before[j].Name # after[i].Name
          /\ after[i].Body = LastBody(definitions, after[i].Name)
          /\ \A j \in 1..Len(held) : after[i].ID > held[j].ID
    /\ \A n \in DefinedNames(definitions) :
          \E i \in 1..Len(after) : after[i].Name = n

InsertOrUpdateStep ==
    /\ project'.fn = "InsertOrUpdateEnumType" =>
          /\ UpdatedInPlaceOrAppended(project.EnumPropertyTypes,
                                      project'.EnumPropertyTypes,
                                      project'.definitions, AllPropertyTypes(project))
          /\ project'.ClassPropertyTypes = project.ClassPropertyTypes
    /\ project'.fn = "InsertOrUpdateClassType" =>
          /\ UpdatedInPlaceOrAppended(project.ClassPropertyTypes,
                                      project'.ClassPropertyTypes,
                                      project'.definitions, AllPropertyTypes(project))
          /\ project'.EnumPropertyTypes = project.EnumPropertyTypes

\* C27: across any sequence of InsertOrUpdateEnumType and
\* InsertOrUpdateClassType calls on a project whose IDs start pairwise
\* distinct, the IDs of the enum and class types stay pairwise distinct; a
\* definition of a name its list holds replaces the first entry of that name
\* in place under the entry's ID, a definition of a new name is appended with
\* an ID greater than every ID present; and a list whose names were unique
\* before a call has unique names after it.
C27_InsertOrUpdateKeepsIDsAndUniqueNames ==
    /\ [](IDsPairwiseDistinct(project))
    /\ [][/\ InsertOrUpdateStep
          /\ NamesOnce(project.EnumPropertyTypes) => NamesOnce(project'.EnumPropertyTypes)
          /\ NamesOnce(project.ClassPropertyTypes) => NamesOnce(project'.ClassPropertyTypes)]_vars

\* A call replaced the enum type "a" in place under its ID 3 and appended
\* "b" above it, next to a class type.
C27_Witness ==
    /\ project.fn = "InsertOrUpdateEnumType"
    /\ Len(project.definitions) = 2
    /\ project.ClassPropertyTypes # <<>>
    /\ Len(project.EnumPropertyTypes) = 2
    /\ project.EnumPropertyTypes[1] = [ID |-> 3, Name |-> "a", Body |-> "q"]
    /\ project.EnumPropertyTypes[2].Name = "b"
    /\ project.EnumPropertyTypes[2].ID > 3

\* C27 as stated: after any call, starting from distinct IDs alone, each
\* name occurs at most once per list.
C27_EachNameOncePerList ==
    /\ [](/\ IDsPairwiseDistinct(project)
          /\ project.fn # "none" =>
                /\ NamesOnce(project.EnumPropertyTypes)
                /\ NamesOnce(project.ClassPropertyTypes))
    /\ [][InsertOrUpdateStep]_vars

(***************************************************************************)
(* Region queries run by several workers on one layer                      *)
(***************************************************************************)

\* drawMapLayer takes no lock, and neither do processChunks and collectTiles
\* on layer.partitions.  A worker's call is followed statement by statement
\* through its accesses to the shared table: at "lookup" it is inside the map
\* read of processChunks, at "insert" inside the map write, at "range" inside
\* the iteration of collectTiles.

\* The layer the workers query.
RaceLayer == 1

\* The positions at which a worker is inside an access to layer.partitions.
TableReads == {"lookup", "range"}

TableWrites == {"insert"}

\* Worker w is inside an access that another worker's access conflicts with.
Races(w) ==
    \E v \in Workers \ {w} :
        \/ pc[w] \in TableWrites /\ pc[v] \in TableReads \cup TableWrites
        \/ pc[w] \in TableReads /\ pc[v] \in TableWrites

QueryRest ==
    /\ UNCHANGED <<rs, loaded, loading, call, res, conc, metadata>>
    /\ UNCHANGED <<tmx, edgeIntersects, layerTiles, region, out, blits>>
    /\ UNCHANGED pureVars

\* drawMapLayer on a layer of an infinite map, up to the first statement of
\* processChunks that touches the layer's store.
BeginDrawMapLayer(w, reg) ==
    LET layer == tmx.Layers[RaceLayer]
    IN /\ pc[w] \in {"idle", "returned"}
       /\ tmx.Infinite
       /\ query' = [query EXCEPT ![w] = [NoQuery EXCEPT !.region = reg, !.i = 1]]
       /\ pc' = [pc EXCEPT ![w] =
                    IF ~layer.Visible \/ Len(tmx.Tilesets) = 0 THEN "returned"
                    ELSE IF Len(layer.Chunks) = 0 THEN "collect"
                    ELSE "nil_check"]
       /\ UNCHANGED <<partitions, partitionsNil>>
       /\ QueryRest

\* if layer.partitions == nil
NilCheck(w) ==
    /\ pc[w] = "nil_check"
    /\ pc' = [pc EXCEPT ![w] = IF partitionsNil[RaceLayer] THEN "make" ELSE "next_chunk"]
    /\ UNCHANGED <<query, partitions, partitionsNil>>
    /\ QueryRest

\* layer.partitions = make(LayerPartitions)
Make(w) ==
    /\ pc[w] = "make"
    /\ partitions' = [partitions EXCEPT ![RaceLayer] = <<>>]
    /\ partitionsNil' = [partitionsNil EXCEPT ![RaceLayer] = FALSE]
    /\ pc' = [pc EXCEPT ![w] = "next_chunk"]
    /\ UNCHANGED query
    /\ QueryRest

\* The head of the loop of processChunks up to the map read, and the call of
\* collectTiles after the loop.
NextChunk(w) ==
    LET q == query[w]
        chunks == tmx.Layers[RaceLayer].Chunks
        rect == ChunkRect(chunks[q.i], tmx.TileWidth, tmx.TileHeight)
    IN /\ pc[w] = "next_chunk"
       /\ IF q.i > Len(chunks)
          THEN /\ pc' = [pc EXCEPT ![w] = "collect"]
               /\ UNCHANGED query
          ELSE IF outside_region(q.region, rect.X, rect.Y, MaxX(rect), MaxY(rect))
          THEN /\ query' = [query EXCEPT ![w].i = q.i + 1]
               /\ UNCHANGED pc
          ELSE /\ query' = [query EXCEPT ![w].rect = rect]
               /\ pc' = [pc EXCEPT ![w] = "lookup"]
       /\ UNCHANGED <<partitions, partitionsNil>>
       /\ QueryRest

\* _, exists := layer.partitions[chunkRect] returns, and the chunk is skipped
\* or decoded; a decode error ends the call.
Lookup(w) ==
    LET q == query[w]
        chunk == tmx.Layers[RaceLayer].Chunks[q.i]
        Decoded(d) ==
            IF ~d.ok
            THEN /\ query' = [query EXCEPT ![w].err = TRUE]
                 /\ pc' = [pc EXCEPT ![w] = "returned"]
            ELSE /\ query' = [query EXCEPT ![w].tiles = d.tiles]
                 /\ pc' = [pc EXCEPT ![w] = "insert"]
    IN /\ pc[w] = "lookup"
       /\ IF \/ partition_exists(partitions[RaceLayer], q.rect)
             \/ ~Intersects(q.region, q.rect)
          THEN /\ query' = [query EXCEPT ![w].i = q.i + 1]
               /\ pc' = [pc EXCEPT ![w] = "next_chunk"]
          ELSE Decoded(decodeTiles(chunk.Data, tmx.Tilesets, q.rect.X, q.rect.Y,
                                   q.rect.W, q.rect.H, tmx.TileWidth, tmx.TileHeight))
       /\ UNCHANGED <<partitions, partitionsNil>>
       /\ QueryRest

\* layer.partitions[chunkRect] = tiles returns.  A write that ran next to
\* another write of the table may be lost.
Insert(w) ==
    LET q == query[w]
        parts == partitions[RaceLayer]
        inserted == [r \in DOMAIN parts \cup {q.rect} |->
                        IF r = q.rect THEN q.tiles ELSE parts[r]]
    IN /\ pc[w] = "insert"
       /\ \/ partitions' = [partitions EXCEPT ![RaceLayer] = inserted]
          \/ /\ \E v \in Workers \ {w} : pc[v] \in TableWrites
             /\ UNCHANGED partitions
       /\ query' = [query EXCEPT ![w].i = q.i + 1]
       /\ pc' = [pc EXCEPT ![w] = "next_chunk"]
       /\ UNCHANGED partitionsNil
       /\ QueryRest

\* collectTiles up to its range over layer.partitions.
Collect(w) ==
    /\ pc[w] = "collect"
    /\ pc' = [pc EXCEPT ![w] =
                 IF layerTiles[RaceLayer] = <<>> /\ partitionsNil[RaceLayer]
                 THEN "returned" ELSE "range"]
    /\ UNCHANGED <<query, partitions, partitionsNil>>
    /\ QueryRest

\* The range over layer.partitions and the filter of collectTiles return.
Range(w) ==
    /\ pc[w] = "range"
    /\ \E ord \in VisitOrders(DOMAIN partitions[RaceLayer]) :
          query' = [query EXCEPT ![w].out =
                       collectTiles(query[w].region, TRUE, layerTiles[RaceLayer],
                                    partitions[RaceLayer], partitionsNil[RaceLayer], ord)]
    /\ pc' = [pc EXCEPT ![w] = "returned"]
    /\ UNCHANGED <<partitions, partitionsNil>>
    /\ QueryRest

\* The Go runtime finds a map access running next to a map write and ends
\* the process with a fatal error ("concurrent map writes", "concurrent map
\* read and map write", "concurrent map iteration and map write").
Throw(w) ==
    /\ Races(w)
    /\ pc' = [v \in Workers |-> "fatal"]
    /\ UNCHANGED <<query, partitions, partitionsNil>>
    /\ QueryRest

\* Two chunks of 2x1 cells side by side, the second with tiles or with a bad
\* token.
RaceMaps ==
    {InfiniteMap(<<TilesetFrom(1)>>, TRUE,
                 <<[X |-> 0, Y |-> 0, Width |-> 2, Height |-> 1, Data |-> <<"1", ",", "2">>],
                   [X |-> 2, Y |-> 0, Width |-> 2, Height |-> 1, Data |-> d]>>) :
        d \in { <<"1", ",", "2">>, <<"1", ",", "x">> }}

\* Regions inside the first chunk, across both, and away from both.
RaceRegions == {NewRect64(0, 0, 1, 2), NewRect64(2, 0, 4, 2), NewRect64(9, 3, 1, 2)}

RaceInit ==
    /\ LoadIdle
    /\ edgeIntersects \in BOOLEAN
    /\ QueryInit(RaceMaps)
    /\ PureIdle

RaceNext ==
    \E w \in Workers :
        \/ \E reg \in RaceRegions : BeginDrawMapLayer(w, reg)
        \/ NilCheck(w)
        \/ Make(w)
        \/ NextChunk(w)
        \/ Lookup(w)
        \/ Insert(w)
        \/ Collect(w)
        \/ Range(w)
        \/ Throw(w)

SpecRace == RaceInit /\ [][RaceNext]_vars

\* C25: while region queries run concurrently on one infinite layer, no
\* worker is inside a write of the layer's partition table while another
\* worker is inside a write or a read of it.
C25_InsertionsMutuallyExclusive ==
    \A w \in Workers : ~Races(w)

====
